---- MODULE Spec2Model ----
(***************************************************************************)
(* SCIMInspector: the command facade (commands.rs), the load-test engine   *)
(* (load_test.rs), the result store (db.rs) and the validation summary     *)
(* (validation.rs), modelled as state machines.                            *)
(*                                                                         *)
(* Spec         one start_load_test command with one scenario, running     *)
(*              concurrently with stop_load_test and delete_test_run.      *)
(* SpecSummary  ValidationEngine::compute_summary applied to bounded lists *)
(*              of validation results.                                     *)
(* SpecUsersCrud    the six probes of ValidationEngine::test_users_crud    *)
(*              followed by compute_summary.                               *)
(* SpecLoadSummary  start_load_test from the return of run_scenario on,    *)
(*              for bounded lists of results: LoadTestEngine::             *)
(*              compute_summary and percentile.                            *)
(***************************************************************************)
EXTENDS Integers, Sequences, FiniteSets, TLC

\* ---------------------------------------------------------------- bounds
MaxRequests == 2        \* largest config.total_requests explored
MaxConcurrency == 2     \* largest config.concurrency explored
MaxResults == 3         \* longest validation result list explored
MaxSummaryLen == 3      \* longest result list handed to compute_summary alone
MaxLatency == 3         \* largest duration_ms in those lists

\* ------------------------------------------------------------- constants
RunId == "r1"           \* the Uuid::new_v4() drawn by start_load_test
UnknownRun == "r0"      \* a run id start_load_test never drew

\* no stop_load_test has returned yet
NoStop == [test_run_id |-> "none", ret |-> "none"]
TransportErr == 0       \* client.request(..) returned Err(_)
NoStatus == 0           \* LoadTestResult.status_code == None
ResponseMs == 1         \* ScimResponse.duration_ms as measured by the client

Scenarios ==
    {"create_users", "create_update", "full_lifecycle", "list_users",
     "create_groups", "group_lifecycle", "add_remove_members", "update_groups"}

\* config.scenario may be any string; dispatch_scenario has a catch-all arm
ScenarioNames == Scenarios \cup {"no_such_scenario"}

\* dispatch_scenario: the match on the scenario name
dispatch_scenario(name) ==
    IF name \in Scenarios THEN name ELSE "create_users"

\* answers the SCIM server (or the transport) can give
PostResponses == {201, 500, TransportErr}   \* 201 carries a body with "id"
OtherResponses == {200, TransportErr}
\* answers to a cleanup DELETE that are explored: a 2xx, and 304 as a 3xx
\* answer the client hands back
CleanupResponses == {200, 304}

Units == 0 .. (MaxRequests - 1)

\* table server_configs: the one server the user has saved; the ids a command
\* can be called with are that one and one the table does not hold
KnownServer == "s1"
server_configs == {KnownServer}
ServerConfigIds == server_configs \cup {"s0"}

\* a lookup that hands out a default configuration for an id without a row
GetAnyServerConfig(id) == TRUE

\* Database::get_server_config(id)?.ok_or("Server config not found"): is
\* there a row
get_server_config(id) == id \in server_configs

\* start.elapsed().as_millis() of start_load_test: no time or some time
ElapsedMs == {0, 2000}

VARIABLES
    \* ---- LoadTestConfig
    scenario,           \* config.scenario
    total_requests,     \* config.total_requests
    concurrency,        \* config.concurrency
    server_config_id,   \* config.server_config_id / request.server_config_id
    \* ---- AppState and result store
    cancel_flags,       \* AppState.cancel_flags: run ids with a registered flag
    cancel_flag,        \* the Arc<AtomicBool> created by start_load_test
    test_runs,          \* table test_runs: row of RunId or NoRow
    load_test_results,  \* table load_test_results: rows of RunId
    \* ---- start_load_test
    fpc,                \* position in start_load_test
    ret,                \* its return value: "none", "Ok", "Err"
    summary,            \* local `summary`
    status,             \* local `status`
    run_writes,         \* statuses written by its save_test_run calls, in order
    \* ---- LoadTestEngine::run_scenario
    phase,              \* phase of the scenario
    epc,                \* position of the scenario body inside the phase
    di,                 \* loop index of the current for-loop
    permits,            \* free permits of the semaphore
    task,               \* spawned tasks of the current phase, by loop index
    created_ids,        \* created_ids / user_ids
    results,            \* results
    idx,                \* idx of scenario_add_remove_members
    error_count,        \* error_count (the AtomicUsize of the scenario)
    \* ---- SCIM server as seen on the wire
    created,            \* resources whose POST was answered 201 with an id
    delete_issued,      \* resources for which a DELETE was sent
    http_requests,      \* HTTP requests the engine has sent
    results_at_cancel,  \* results produced when the flag was first set, if it
                        \* was set before run_scenario returned; otherwise -1
    stop_ret,           \* what the last stop_load_test call returned
    \* ---- ValidationEngine::compute_summary
    vresults,           \* the results slice
    vsummary,           \* the returned ValidationSummary, or NoSummary
    vpc,
    \* ---- ValidationEngine::test_users_crud
    created_user_id,    \* created_user_id: None or Some(id)
    probes,             \* numbers of the tests whose HTTP request was sent
    \* ---- run_validation, execute_scim_request
    command,            \* the command the frontend invokes
    request_method,     \* request.method of execute_scim_request
    cpc,                \* position in that command
    cret,               \* its return value
    validation_results, \* table validation_results: rows of the run
    \* ---- ValidationEngine::run
    categories,         \* categories, as the caller supplied them
    rules,              \* field_mapping_rules.len()
    answers,            \* how the SCIM server answers the probes of this run
    vcancel,            \* cancel_flag
    custom_attrs,       \* custom_attrs: the attr_type of each discovered attribute
    total_tests,        \* total_tests
    completed,          \* completed
    ci,                 \* position of the for-loop in all_categories, from 1
    ti,                 \* number of the test running inside the category, from 1
    vevents,            \* validation-progress events emitted, in order
    \* ---- LoadTestEngine::run_multi_scenario
    scenarios,          \* config.scenarios
    handles,            \* handles: the spawned scenario tasks, in spawn order
    all_results,        \* all_results
    joined,             \* handles awaited so far
    mpc,                \* position in run_multi_scenario
    \* ---- loadtest-progress events of one scenario
    ppc,                \* the phase the scenario is in
    pidx,               \* tasks of the phase that have finished
    pcompleted,         \* completed (the AtomicUsize of the scenario)
    pcreated,           \* ids collected by the create phase
    levents,            \* loadtest-progress events emitted, in order
    ticks,              \* every value `completed` has held after a fetch_add
    phase_finals,       \* phase and count of the last task of each phase run
    \* ---- ValidationEngine::discover_schema_attributes
    schemas_response,   \* what GET /Schemas answered
    discovered,         \* attrs
    dsi,                \* position of the loop over schemas, from 1
    dai,                \* position of the loop over the schema's attributes
    dpc,                \* position in discover_schema_attributes
    \* ---- LoadTestEngine::apply_ramp_up and the dispatch loop around it
    ramp_up_seconds,    \* config.ramp_up_seconds: None or Some(seconds)
    now,                \* start_time.elapsed(), in ticks of 1/total ms
    rpc,                \* position of the dispatcher
    ri,                 \* i of the for-loop
    rpermits,           \* permits the semaphore has available
    rtasks,             \* spawned tasks that still hold their permit
    acquired_at,        \* elapsed time at which each unit got its permit
    wake,               \* the instant the running sleep ends at the earliest
    \* ---- the scenario tasks of run_multi_scenario, each with its semaphore
    subs,               \* per spawned scenario: its dispatcher and its permits
    xpc,                \* position in run_multi_scenario
    \* ---- ValidationEngine::test_field_mapping
    field_rules,        \* rules
    user_json,          \* user_json: None or Some(document)
    fm_created,         \* whether created_user_id is Some
    fm_results,         \* results
    fmi,                \* position of the loop over rules, from 1
    fm_deleted,         \* whether the cleanup DELETE was sent
    fmpc,               \* position in test_field_mapping
    \* ---- ValidationEngine::test_duplicate_detection
    first_user_id,      \* first_user_id: None or Some(id)
    first_group_id,     \* first_group_id: None or Some(id)
    dup_created,        \* resources the server created for a POST it answered 201
    dup_deleted,        \* resources a DELETE was sent for
    dup_results,        \* results
    duppc               \* position in test_duplicate_detection

vars == <<scenario, total_requests, concurrency, server_config_id,
          cancel_flags, cancel_flag,
          test_runs, load_test_results, fpc, ret, summary, status, run_writes,
          phase, epc, di, permits, task, created_ids, results, idx, error_count,
          created, delete_issued, http_requests, results_at_cancel, stop_ret,
          vresults, vsummary, vpc, created_user_id, probes,
          command, request_method, cpc, cret, validation_results,
          categories, rules, answers, vcancel, custom_attrs, total_tests,
          completed, ci, ti, vevents,
          scenarios, handles, all_results, joined, mpc,
          ppc, pidx, pcompleted, pcreated, levents, ticks, phase_finals,
          schemas_response, discovered, dsi, dai, dpc,
          ramp_up_seconds, now, rpc, ri, rpermits, rtasks, acquired_at, wake,
          subs, xpc,
          field_rules, user_json, fm_created, fm_results, fmi, fm_deleted, fmpc,
          first_user_id, first_group_id, dup_created, dup_deleted, dup_results, duppc>>

configVars == <<scenario, total_requests, concurrency, server_config_id>>
storeVars == <<test_runs, load_test_results>>
facadeVars == <<fpc, ret, summary, status, run_writes>>
engineVars == <<phase, epc, di, permits, task, created_ids, results, idx,
                error_count>>
wireVars == <<created, delete_issued, http_requests>>
validationVars == <<categories, rules, answers, vcancel, custom_attrs,
                    total_tests, completed, ci, ti, vevents>>
multiVars == <<scenarios, handles, all_results, joined, mpc>>
commandVars == <<command, request_method, cpc, cret, validation_results,
                 validationVars>>
\* what the actions of Spec, SpecSummary, SpecUsersCrud and SpecLoadSummary
\* never write
progressVars == <<ppc, pidx, pcompleted, pcreated, levents, ticks, phase_finals>>
discoverVars == <<schemas_response, discovered, dsi, dai, dpc>>
rampVars == <<ramp_up_seconds, now, rpc, ri, rpermits, rtasks, acquired_at, wake>>
sharedVars == <<subs, xpc>>
mappingVars == <<field_rules, user_json, fm_created, fm_results, fmi, fm_deleted, fmpc>>
duplicateVars == <<first_user_id, first_group_id, dup_created, dup_deleted,
                   dup_results, duppc>>
moreVars == <<rampVars, sharedVars, mappingVars, duplicateVars>>
auxVars == <<progressVars, discoverVars, moreVars>>
extVars == <<commandVars, multiVars, auxVars>>
summaryVars == <<vresults, vsummary, vpc, created_user_id, probes, extVars>>

\* ------------------------------------------------------------ pure helpers
\* an f64 the code computes as a quotient, kept as the exact fraction num/den
Ratio(n, d) == [num |-> n, den |-> d]

\* LoadTestEngine::build_result; `resp` and `duration_ms` are the status and
\* the duration of the ScimResponse, resp = TransportErr is Err(e)
build_result(index, method, resp, duration_ms) ==
    IF resp # TransportErr
    THEN [request_index |-> index, http_method |-> method,
          status_code |-> resp,
          duration_ms |-> duration_ms,
          success |-> (resp >= 200 /\ resp < 400),
          error_message |-> IF resp >= 200 /\ resp < 400 THEN "None" ELSE "Status"]
    ELSE [request_index |-> index, http_method |-> method,
          status_code |-> NoStatus,
          duration_ms |-> 0,
          success |-> FALSE,
          error_message |-> "Transport"]

\* build_result: error_count.fetch_add(1) unless the answer is a 2xx or 3xx
count_error(ec, resp) ==
    IF resp # TransportErr /\ resp >= 200 /\ resp < 400 THEN ec ELSE ec + 1

\* the LoadTestResult literal pushed by cleanup_users / cleanup_resources
cleanup_result(index, resp, duration_ms) ==
    [request_index |-> index, http_method |-> "DELETE",
     status_code |-> IF resp # TransportErr THEN resp ELSE NoStatus,
     duration_ms |-> IF resp # TransportErr THEN duration_ms ELSE 0,
     success |-> (resp # TransportErr /\ resp >= 200 /\ resp < 300),
     error_message |-> IF resp = TransportErr THEN "Transport" ELSE "None"]

\* the synthetic records of a lifecycle unit whose create failed (the message
\* is written with a dash in the source)
skipped_result(index, method) ==
    [request_index |-> index, http_method |-> method,
     status_code |-> NoStatus,
     duration_ms |-> 0,
     success |-> FALSE,
     error_message |-> "Skipped - create failed"]

RECURSIVE CountSuccess(_)
CountSuccess(s) ==
    IF s = <<>> THEN 0
    ELSE (IF Head(s).success THEN 1 ELSE 0) + CountSuccess(Tail(s))

\* latencies.sort(): ascending
RECURSIVE InsertAscending(_, _)
InsertAscending(x, s) ==
    IF s = <<>> THEN <<x>>
    ELSE IF x < Head(s)
         THEN <<x>> \o s
         ELSE <<Head(s)>> \o InsertAscending(x, Tail(s))

RECURSIVE sort(_)
sort(s) ==
    IF Len(s) <= 1 THEN s
    ELSE LET n == Len(s)
         IN  InsertAscending(s[n], sort(SubSeq(s, 1, n - 1)))

RECURSIVE sum(_)
sum(s) == IF s = <<>> THEN 0 ELSE Head(s) + sum(Tail(s))

\* rounding that drops the fraction
RoundDown(n, d) == n \div d

\* f64::round of the non-negative quotient n/d: to the nearest integer, a half
\* away from zero
round(n, d) == (2 * n + d) \div (2 * d)

\* nearest rank taken over len instead of len - 1
percentileOverLen(sorted, p) ==
    IF sorted = <<>> THEN 0
    ELSE LET len == Len(sorted)
             rank == round(p * len, 100)
         IN  sorted[(IF rank < len - 1 THEN rank ELSE len - 1) + 1]

\* LoadTestEngine::percentile; `sorted[idx]` of the code is sorted[rank + 1] here
percentile(sorted, p) ==
    IF sorted = <<>> THEN 0
    ELSE LET len == Len(sorted)
             rank == round(p * (len - 1), 100)
         IN  sorted[(IF rank < len - 1 THEN rank ELSE len - 1) + 1]

\* the latencies taken in result order, without the sort
latenciesUnsorted(rs) == [k \in 1 .. Len(rs) |-> rs[k].duration_ms]

\* compute_summary, lines 1061-1062: the durations of the results, sorted
latencies(rs) == sort([k \in 1 .. Len(rs) |-> rs[k].duration_ms])

\* compute_summary, line 1059
error_rate(failed, total) ==
    IF total > 0 THEN Ratio(failed * 100, total) ELSE Ratio(0, 1)

\* a rate that divides by one millisecond when no time has elapsed
requests_per_secondUnguarded(total, total_duration_ms) ==
    Ratio(total * 1000,
          IF total_duration_ms > 0 THEN total_duration_ms ELSE 1)

\* compute_summary, lines 1078-1082
requests_per_second(total, total_duration_ms) ==
    IF total_duration_ms > 0
    THEN Ratio(total * 1000, total_duration_ms)
    ELSE Ratio(0, 1)

\* compute_summary, lines 1084-1089: how many results carry each status code
status_code_distribution(rs) ==
    LET at == {k \in 1 .. Len(rs) : rs[k].status_code # NoStatus}
    IN  [c \in {rs[k].status_code : k \in at}
            |-> Cardinality({k \in at : rs[k].status_code = c})]

\* LoadTestEngine::compute_summary
compute_summary(rs, total_duration_ms) ==
    LET total == Len(rs)
        successful == CountSuccess(rs)
        failed == total - successful
        lat == latencies(rs)
    IN  [present |-> TRUE,
         total_requests |-> total,
         successful |-> successful,
         failed |-> failed,
         error_rate |-> error_rate(failed, total),
         total_duration_ms |-> total_duration_ms,
         min_latency_ms |-> IF lat = <<>> THEN 0 ELSE lat[1],
         max_latency_ms |-> IF lat = <<>> THEN 0 ELSE lat[Len(lat)],
         avg_latency_ms |-> IF lat # <<>> THEN Ratio(sum(lat), Len(lat)) ELSE Ratio(0, 1),
         p50_latency_ms |-> percentile(lat, 50),
         p75_latency_ms |-> percentile(lat, 75),
         p90_latency_ms |-> percentile(lat, 90),
         p95_latency_ms |-> percentile(lat, 95),
         p99_latency_ms |-> percentile(lat, 99),
         requests_per_second |-> requests_per_second(total, total_duration_ms),
         status_code_distribution |-> status_code_distribution(rs)]

\* summary_json == None
NoSummary == [compute_summary(<<>>, 0) EXCEPT !.present = FALSE]

\* no row of RunId in test_runs
NoRow == [status |-> "absent", completed_at |-> FALSE, summary_json |-> NoSummary]

\* results.sort_by_key(|r| r.request_index): a stable sort
RECURSIVE InsertByKey(_, _)
InsertByKey(r, s) ==
    IF s = <<>> THEN <<r>>
    ELSE IF r.request_index < Head(s).request_index
         THEN <<r>> \o s
         ELSE <<Head(s)>> \o InsertByKey(r, Tail(s))

RECURSIVE sort_by_key(_)
sort_by_key(s) ==
    IF Len(s) <= 1 THEN s
    ELSE LET n == Len(s)
         IN  InsertByKey(s[n], sort_by_key(SubSeq(s, 1, n - 1)))

\* the values the awaited handles yield, in handle order
RECURSIVE HandleOutputs(_, _)
HandleOutputs(t, k) ==
    IF k = 0 THEN <<>> ELSE HandleOutputs(t, k - 1) \o t[k - 1].out

\* collect_results
collect_results(t) == sort_by_key(HandleOutputs(t, MaxRequests))


\* ------------------------------------------------------- scenario layout
Scen == dispatch_scenario(scenario)

\* the resource collection a scenario creates in
ResType ==
    IF Scen \in {"create_groups", "group_lifecycle", "update_groups"}
    THEN "Groups" ELSE "Users"

\* the id the server returns for the resource created by loop index i
Rid(i) == <<ResType, i>>

\* the one group of scenario_add_remove_members
GroupRid == <<"Groups", 0>>

\* the phase a scenario body starts in
FirstPhase ==
    CASE Scen \in {"create_users", "create_update", "create_groups", "update_groups"} -> "create"
      [] Scen \in {"full_lifecycle", "group_lifecycle"} -> "lifecycle"
      [] Scen = "list_users" -> "list"
      [] OTHER -> "group"

HasUpdatePhase == Scen \in {"create_update", "update_groups"}

\* a semaphore built with one permit too many
SemaphoreNewOneMore(c) == c + 1

\* Semaphore::new(config.concurrency)
SemaphoreNew(c) == c

\* acquire_owned().await completes only when a permit is free
CanAcquire(p) == p > 0

\* an update loop that runs over 0..n instead of over the captured ids
LoopBoundTotal == total_requests

\* the bound of the for-loop that spawns the tasks of a phase
LoopBound == IF phase = "update" THEN Len(created_ids) ELSE total_requests

\* every task numbered by its loop index alone
TaskIndexLoopIndex(ph, n, i) == i

\* request_index given to the task of loop index i
TaskIndex(ph, n, i) ==
    CASE ph = "update" -> n + i
      [] ph = "lifecycle" -> i * 3
      [] OTHER -> i

\* cleanup numbered from n although an update phase used n .. 2n-1
CleanupBaseIgnoringUpdates(s, n, k) ==
    IF s = "add_remove_members" THEN k ELSE n

\* base_total handed to cleanup_users / cleanup_resources
CleanupBase(s, n, k) ==
    CASE s \in {"create_update", "update_groups"} -> n * 2
      [] s = "add_remove_members" -> k
      [] OTHER -> n

\* the request a spawned task sends first
FirstRequest(ph) ==
    CASE ph = "update" -> "patch"
      [] ph = "list" -> "get"
      [] OTHER -> "post"

MethodOf(pc) ==
    CASE pc = "post" -> "POST"
      [] pc = "get" -> "GET"
      [] pc = "patch" -> "PATCH"
      [] OTHER -> "DELETE"

InFlightPcs == {"post", "get", "patch", "delete"}

IdleTask == [pc |-> "idle", out |-> <<>>]
NoTasks == [i \in Units |-> IdleTask]

\* requests sent and not yet answered
InFlight ==
    Cardinality({i \in Units : task[i].pc \in InFlightPcs})
        + (IF epc = "req" THEN 1 ELSE 0)

\* LoadTestResults built so far in this run
Produced == Len(results) + Len(HandleOutputs(task, MaxRequests))

RunningRow == [status |-> "running", completed_at |-> FALSE, summary_json |-> NoSummary]

\* ------------------------------------------------------------------ Init
IdleEngine ==
    /\ phase = "none"
    /\ epc = "none"
    /\ di = 0
    /\ permits = 0
    /\ task = NoTasks
    /\ created_ids = <<>>
    /\ results = <<>>
    /\ idx = 0
    /\ error_count = 0

IdleFacade ==
    /\ cancel_flags = {}
    /\ cancel_flag = FALSE
    /\ test_runs = NoRow
    /\ load_test_results = <<>>
    /\ fpc = "idle"
    /\ ret = "none"
    /\ summary = NoSummary
    /\ status = "none"
    /\ run_writes = <<>>
    /\ created = {}
    /\ delete_issued = {}
    /\ http_requests = 0
    /\ results_at_cancel = -1
    /\ stop_ret = NoStop

\* run_multi_scenario has not been entered
IdleMulti ==
    /\ scenarios = <<>>
    /\ handles = <<>>
    /\ all_results = <<>>
    /\ joined = 0
    /\ mpc = "off"

\* ValidationEngine::run has not been entered
IdleValidation ==
    /\ vcancel = FALSE
    /\ custom_attrs = <<>>
    /\ total_tests = 0
    /\ completed = 0
    /\ ci = 1
    /\ ti = 0
    /\ vevents = <<>>

\* no run_validation / execute_scim_request command has been invoked
IdleCommand ==
    /\ command = "none"
    /\ request_method = "none"
    /\ cpc = "idle"
    /\ cret = "none"
    /\ validation_results = <<>>
    /\ categories = <<>>
    /\ rules = 0
    /\ answers = "none"
    /\ IdleValidation

\* no scenario is being followed for its progress events
IdleProgress ==
    /\ ppc = "off"
    /\ pidx = 0
    /\ pcompleted = 0
    /\ pcreated = 0
    /\ levents = <<>>
    /\ ticks = {}
    /\ phase_finals = {}

\* discover_schema_attributes has not been entered
IdleDiscover ==
    /\ schemas_response = <<>>
    /\ discovered = <<>>
    /\ dsi = 1
    /\ dai = 1
    /\ dpc = "off"

\* Option<u64>
NoRampUp == [some |-> FALSE, secs |-> 0]

\* no dispatch loop with ramp-up has been entered
IdleRamp ==
    /\ ramp_up_seconds = NoRampUp
    /\ now = 0
    /\ rpc = "off"
    /\ ri = 0
    /\ rpermits = 0
    /\ rtasks = {}
    /\ acquired_at = <<>>
    /\ wake = 0

\* no scenario task has been spawned
IdleShared ==
    /\ subs = <<>>
    /\ xpc = "off"

\* serde_json::Value::Null, and Option<Value>
JNull == [kind |-> "null"]
NoValue == [some |-> FALSE, val |-> JNull]

\* test_field_mapping has not been entered
IdleMapping ==
    /\ field_rules = <<>>
    /\ user_json = NoValue
    /\ fm_created = FALSE
    /\ fm_results = <<>>
    /\ fmi = 1
    /\ fm_deleted = FALSE
    /\ fmpc = "off"

\* Option<String> of a resource id
NoId == [some |-> FALSE, id |-> ""]

\* test_duplicate_detection has not been entered
IdleDuplicate ==
    /\ first_user_id = NoId
    /\ first_group_id = NoId
    /\ dup_created = {}
    /\ dup_deleted = {}
    /\ dup_results = <<>>
    /\ duppc = "off"

IdleMore ==
    /\ IdleRamp
    /\ IdleShared
    /\ IdleMapping
    /\ IdleDuplicate

IdleAux ==
    /\ IdleProgress
    /\ IdleDiscover
    /\ IdleMore

IdleExt ==
    /\ IdleCommand
    /\ IdleMulti
    /\ IdleAux

NoVSummary ==
    [total |-> 0, passed |-> 0, failed |-> 0, skipped |-> 0,
     compliance_score |-> Ratio(0, 1)]

\* ------------------------------------- validation.rs: results and summary
\* Option<String> failure reasons; a text is the sequence of its pieces
None == [some |-> FALSE, text |-> <<>>]
Some(t) == [some |-> TRUE, text |-> t]

\* str::starts_with
starts_with(t, prefix) ==
    /\ Len(t) >= Len(prefix)
    /\ SubSeq(t, 1, Len(prefix)) = prefix

\* make_result, reduced to the fields compute_summary reads
make_result(category, passed, failure_reason) ==
    [category |-> category, passed |-> passed, failure_reason |-> failure_reason]

\* the results the probes push: a pass, a failure with its reason, a
\* dependency skip, the pass-with-warning of the invalid-filter probe, and the
\* placeholders of test_field_mapping and test_custom_schema
ValidationResults ==
    { make_result("users_crud", TRUE, None),
      make_result("users_crud", FALSE, Some(<<"Expected status 201, got 500">>)),
      make_result("users_crud", FALSE, Some(<<"Skipped", ": user creation failed">>)),
      make_result("filtering_pagination", TRUE,
                  Some(<<"Server returned 200 instead of 400 for an invalid filter">>)),
      make_result("field_mapping", TRUE,
                  Some(<<"Skipped", " - no field mapping rules configured">>)),
      make_result("custom_schema", TRUE,
                  Some(<<"Skipped", " - no extension schema attributes found in /Schemas">>)) }

IsSkipped(r) ==
    r.failure_reason.some /\ starts_with(r.failure_reason.text, <<"Skipped">>)

\* ValidationEngine::compute_summary (the counts): each count is
\* results.iter().filter(..).count()
\* ValidationEngine::compute_summary, lines 1952-1956:
\* (passed / (total - skipped)) * 100.0, or 0.0 when total - skipped is 0
compliance_score(passed, total, skipped) ==
    IF total - skipped > 0
    THEN Ratio(passed * 100, total - skipped)
    ELSE Ratio(0, 1)

validation_compute_summary(rs) ==
    LET at == 1 .. Len(rs)
        total == Len(rs)
        passed == Cardinality({k \in at : rs[k].passed})
        skipped == Cardinality({k \in at : IsSkipped(rs[k])})
    IN  [total |-> total,
         passed |-> passed,
         failed |-> Cardinality({k \in at : ~rs[k].passed /\ ~IsSkipped(rs[k])}),
         skipped |-> skipped,
         compliance_score |-> compliance_score(passed, total, skipped)]

RECURSIVE SeqsUpTo(_, _)
SeqsUpTo(S, n) ==
    IF n = 0 THEN {<<>>}
    ELSE LET shorter == SeqsUpTo(S, n - 1)
         IN  shorter \cup {Append(q, x) : q \in shorter, x \in S}

Init ==
    /\ scenario \in ScenarioNames
    /\ total_requests \in 0 .. MaxRequests
    /\ concurrency \in 0 .. MaxConcurrency
    /\ server_config_id \in ServerConfigIds
    /\ IdleFacade
    /\ IdleEngine
    /\ vresults = <<>>
    /\ vsummary = NoVSummary
    /\ vpc = "off"
    /\ created_user_id = None
    /\ probes = {}
    /\ IdleExt

\* --------------------------------------------------- commands.rs: facade
\* start_load_test, lines 156-168: look the server up, build the client,
\* register the cancel flag
StartLoadTest ==
    /\ fpc = "idle"
    /\ \E built \in BOOLEAN :
        IF get_server_config(server_config_id) /\ built
        THEN /\ cancel_flags' = cancel_flags \cup {RunId}
             /\ fpc' = "registered"
             /\ ret' = ret
        ELSE /\ fpc' = "returned"
             /\ ret' = "Err"
             /\ cancel_flags' = cancel_flags
    /\ UNCHANGED <<configVars, cancel_flag, storeVars, summary, status, run_writes,
                   engineVars, wireVars, results_at_cancel, stop_ret, summaryVars>>

\* lines 171-180: save_test_run(status = running)?
SaveRunningRun ==
    /\ fpc = "registered"
    /\ \E ok \in BOOLEAN :
        IF ok
        THEN /\ test_runs' = RunningRow
             /\ run_writes' = Append(run_writes, "running")
             /\ fpc' = "run_scenario"
             /\ ret' = ret
        ELSE /\ fpc' = "returned"
             /\ ret' = "Err"
             /\ UNCHANGED <<test_runs, run_writes>>
    /\ UNCHANGED <<configVars, cancel_flags, cancel_flag, load_test_results, summary,
                   status, engineVars, wireVars, results_at_cancel, stop_ret, summaryVars>>

\* line 183 and run_scenario / dispatch_scenario up to the scenario's first
\* suspension point
RunScenario ==
    /\ fpc = "run_scenario"
    /\ fpc' = "engine"
    /\ phase' = FirstPhase
    /\ epc' = IF FirstPhase = "group" THEN "req" ELSE "loop"
    /\ di' = 0
    /\ permits' = IF FirstPhase = "group" THEN 0 ELSE SemaphoreNew(concurrency)
    /\ task' = NoTasks
    /\ created_ids' = <<>>
    /\ results' = <<>>
    /\ idx' = 0
    /\ error_count' = 0
    /\ http_requests' = IF FirstPhase = "group" THEN http_requests + 1 ELSE http_requests
    /\ UNCHANGED <<configVars, cancel_flags, cancel_flag, storeVars, ret, summary,
                   status, run_writes, created, delete_issued, results_at_cancel, stop_ret,
                   summaryVars>>

\* lines 184-193: start.elapsed(), save_load_test_results(&results)?, compute_summary, and the
\* load of the cancel flag that picks the status
SaveLoadTestResults ==
    /\ fpc = "engine"
    /\ phase = "returned"
    /\ \E ok \in BOOLEAN, total_duration_ms \in ElapsedMs :
        IF ok
        THEN /\ load_test_results' = load_test_results \o results
             /\ summary' = compute_summary(results, total_duration_ms)
             /\ status' = IF cancel_flag THEN "cancelled" ELSE "completed"
             /\ fpc' = "save_completed"
             /\ ret' = ret
        ELSE /\ fpc' = "returned"
             /\ ret' = "Err"
             /\ UNCHANGED <<load_test_results, summary, status>>
    /\ UNCHANGED <<configVars, cancel_flags, cancel_flag, test_runs, run_writes,
                   engineVars, wireVars, results_at_cancel, stop_ret, summaryVars>>

\* lines 194-203: save_test_run(completed_run)?
SaveCompletedRun ==
    /\ fpc = "save_completed"
    /\ \E ok \in BOOLEAN :
        IF ok
        THEN /\ test_runs' = [status |-> status, completed_at |-> TRUE,
                              summary_json |-> summary]
             /\ run_writes' = Append(run_writes, status)
             /\ fpc' = "remove_flag"
             /\ ret' = ret
        ELSE /\ fpc' = "returned"
             /\ ret' = "Err"
             /\ UNCHANGED <<test_runs, run_writes>>
    /\ UNCHANGED <<configVars, cancel_flags, cancel_flag, load_test_results, summary,
                   status, engineVars, wireVars, results_at_cancel, stop_ret, summaryVars>>

\* lines 205-211: remove the cancel flag, return Ok(test_run_id)
RemoveCancelFlag ==
    /\ fpc = "remove_flag"
    /\ cancel_flags' = cancel_flags \ {RunId}
    /\ fpc' = "returned"
    /\ ret' = "Ok"
    /\ UNCHANGED <<configVars, cancel_flag, storeVars, summary, status, run_writes,
                   engineVars, wireVars, results_at_cancel, stop_ret, summaryVars>>

\* flags.get(&test_run_id) is Some(flag), assuming only no flag at all
FlagsGetAnyRun(flags, r) == TRUE

\* flags.get(&test_run_id) is Some(flag)
FlagsGet(flags, r) == r \in flags

\* stop_load_test(r), lines 214-226; the registry holds no flag but that of
\* RunId
StopLoadTest(r) ==
    /\ IF FlagsGet(cancel_flags, r)
       THEN /\ cancel_flag' = TRUE
            /\ results_at_cancel' = IF cancel_flag \/ phase = "returned"
                                    THEN results_at_cancel ELSE Produced
            /\ stop_ret' = [test_run_id |-> r, ret |-> "Ok"]
       ELSE /\ stop_ret' = [test_run_id |-> r,
                            ret |-> "Err: Test run not found or already completed"]
            /\ UNCHANGED <<cancel_flag, results_at_cancel>>
    /\ UNCHANGED <<configVars, cancel_flags, storeVars, facadeVars, engineVars,
                   wireVars, summaryVars>>

\* delete_test_run(RunId) -> Database::delete_test_run
DeleteTestRun ==
    /\ fpc # "idle"
    /\ load_test_results' = <<>>
    /\ test_runs' = NoRow
    /\ UNCHANGED <<configVars, cancel_flags, cancel_flag, facadeVars, engineVars,
                   wireVars, results_at_cancel, stop_ret, summaryVars>>


\* ------------------------------------------- load_test.rs: scenario bodies
facadeRest == <<configVars, cancel_flags, cancel_flag, storeVars, facadeVars,
                results_at_cancel, stop_ret, summaryVars>>

\* cleanup_users / cleanup_resources entered with `ids`: returns at once when
\* ids is empty, otherwise starts its loop
EnterCleanup(ids) ==
    IF ids = <<>>
    THEN /\ phase' = "returned"
         /\ epc' = "none"
    ELSE /\ phase' = "cleanup"
         /\ epc' = "seq"

\* top of a spawning for-loop: `if cancel_flag.load() { break; }`, then
\* apply_ramp_up, then wait for a permit
DispatchLoop ==
    /\ fpc = "engine"
    /\ epc = "loop"
    /\ epc' = IF di < LoopBound /\ ~cancel_flag THEN "acquire" ELSE "join"
    /\ UNCHANGED <<phase, di, permits, task, created_ids, results, idx,
                   wireVars, error_count, facadeRest>>

\* semaphore.acquire_owned().await, then tokio::spawn of the task
DispatchAcquire ==
    /\ fpc = "engine"
    /\ epc = "acquire"
    /\ CanAcquire(permits)
    /\ permits' = permits - 1
    /\ task' = [task EXCEPT ![di] = [pc |-> "spawned", out |-> <<>>]]
    /\ di' = di + 1
    /\ epc' = "loop"
    /\ UNCHANGED <<phase, created_ids, results, idx, wireVars, error_count, facadeRest>>

\* a spawned task starts: `if cancel.load() { return None; }`, otherwise it
\* sends its first request; the permit is dropped when the task ends
TaskStart(i) ==
    /\ fpc = "engine"
    /\ task[i].pc = "spawned"
    /\ IF cancel_flag
       THEN /\ task' = [task EXCEPT ![i].pc = "done"]
            /\ permits' = permits + 1
            /\ http_requests' = http_requests
       ELSE /\ task' = [task EXCEPT ![i].pc = FirstRequest(phase)]
            /\ permits' = permits
            /\ http_requests' = http_requests + 1
    /\ UNCHANGED <<phase, epc, di, created_ids, results, idx, created, delete_issued,
                   error_count, facadeRest>>

\* the request of a create / update / list task is answered: build_result,
\* capture of the created id, end of the task
TaskResponse(i) ==
    /\ fpc = "engine"
    /\ phase \in {"create", "update", "list"}
    /\ task[i].pc \in InFlightPcs
    /\ \E resp \in (IF phase = "create" THEN PostResponses ELSE OtherResponses) :
        LET r == build_result(TaskIndex(phase, total_requests, i),
                              MethodOf(task[i].pc), resp, ResponseMs)
        IN  /\ task' = [task EXCEPT ![i] = [pc |-> "done", out |-> <<r>>]]
            /\ error_count' = count_error(error_count, resp)
            /\ IF phase = "create" /\ resp = 201
               THEN /\ created_ids' = Append(created_ids, Rid(i))
                    /\ created' = created \cup {Rid(i)}
               ELSE UNCHANGED <<created_ids, created>>
    /\ permits' = permits + 1
    /\ UNCHANGED <<phase, epc, di, results, idx, delete_issued, http_requests,
                   facadeRest>>

\* lifecycle unit, step 1: the POST is answered
LifecyclePostResponse(i) ==
    /\ fpc = "engine"
    /\ phase = "lifecycle"
    /\ task[i].pc = "post"
    /\ \E resp \in PostResponses :
        LET base_idx == TaskIndex(phase, total_requests, i)
            r == build_result(base_idx, "POST", resp, ResponseMs)
        IN  IF resp = 201
            THEN /\ created' = created \cup {Rid(i)}
                 /\ error_count' = count_error(error_count, resp)
                 /\ IF ~cancel_flag
                    THEN /\ task' = [task EXCEPT ![i] = [pc |-> "get", out |-> <<r>>]]
                         /\ permits' = permits
                         /\ http_requests' = http_requests + 1
                    ELSE /\ task' = [task EXCEPT ![i] = [pc |-> "done", out |-> <<r>>]]
                         /\ permits' = permits + 1
                         /\ http_requests' = http_requests
            ELSE /\ task' = [task EXCEPT ![i] =
                        [pc |-> "done",
                         out |-> <<r, skipped_result(base_idx + 1, "GET"),
                                      skipped_result(base_idx + 2, "DELETE")>>]]
                 /\ permits' = permits + 1
                 /\ created' = created
                 /\ error_count' = count_error(error_count, resp) + 2
                 /\ http_requests' = http_requests
    /\ UNCHANGED <<phase, epc, di, created_ids, results, idx, delete_issued, facadeRest>>

\* lifecycle unit, step 2: the GET is answered
LifecycleGetResponse(i) ==
    /\ fpc = "engine"
    /\ phase = "lifecycle"
    /\ task[i].pc = "get"
    /\ \E resp \in OtherResponses :
        LET r == build_result(TaskIndex(phase, total_requests, i) + 1, "GET", resp, ResponseMs)
        IN  /\ error_count' = count_error(error_count, resp)
            /\ IF ~cancel_flag
               THEN /\ task' = [task EXCEPT ![i] = [pc |-> "delete", out |-> Append(@.out, r)]]
                    /\ delete_issued' = delete_issued \cup {Rid(i)}
                    /\ http_requests' = http_requests + 1
                    /\ permits' = permits
               ELSE /\ task' = [task EXCEPT ![i] = [pc |-> "done", out |-> Append(@.out, r)]]
                    /\ delete_issued' = delete_issued
                    /\ http_requests' = http_requests
                    /\ permits' = permits + 1
    /\ UNCHANGED <<phase, epc, di, created_ids, results, idx, created, facadeRest>>

\* lifecycle unit, step 3: the DELETE is answered
LifecycleDeleteResponse(i) ==
    /\ fpc = "engine"
    /\ phase = "lifecycle"
    /\ task[i].pc = "delete"
    /\ \E resp \in OtherResponses :
        LET r == build_result(TaskIndex(phase, total_requests, i) + 2, "DELETE", resp, ResponseMs)
        IN  /\ task' = [task EXCEPT ![i] = [pc |-> "done", out |-> Append(@.out, r)]]
            /\ error_count' = count_error(error_count, resp)
    /\ permits' = permits + 1
    /\ UNCHANGED <<phase, epc, di, created_ids, results, idx, wireVars, facadeRest>>

\* handles handed back without being awaited
JoinedUnawaited(t) == TRUE

\* `for handle in handles { handle.await }` has run through: every spawned
\* task has ended
AllJoined(t) == \A i \in Units : t[i].pc \in {"idle", "done"}

\* every handle has been awaited: collect_results (or extend + sort_by_key in
\* the lifecycle scenarios), then the step to the next phase
CollectResults ==
    /\ fpc = "engine"
    /\ epc = "join"
    /\ AllJoined(task)
    /\ results' = IF phase = "lifecycle"
                  THEN sort_by_key(results \o HandleOutputs(task, MaxRequests))
                  ELSE results \o collect_results(task)
    /\ task' = NoTasks
    /\ di' = 0
    /\ IF phase = "create" /\ HasUpdatePhase
       THEN /\ phase' = "update"
            /\ epc' = "loop"
       ELSE IF phase \in {"create", "update"}
            THEN EnterCleanup(created_ids)
            ELSE /\ phase' = "returned"
                 /\ epc' = "none"
    /\ UNCHANGED <<permits, created_ids, idx, wireVars, error_count, facadeRest>>

\* top of the cleanup loop: `if cancel_flag.load() { break; }`, otherwise the
\* DELETE of ids[i] is sent
CleanupLoop ==
    /\ fpc = "engine"
    /\ phase = "cleanup"
    /\ epc = "seq"
    /\ IF di < Len(created_ids) /\ ~cancel_flag
       THEN /\ epc' = "req"
            /\ phase' = phase
            /\ delete_issued' = delete_issued \cup {created_ids[di + 1]}
            /\ http_requests' = http_requests + 1
       ELSE /\ epc' = "none"
            /\ phase' = "returned"
            /\ delete_issued' = delete_issued
            /\ http_requests' = http_requests
    /\ UNCHANGED <<di, permits, task, created_ids, results, idx, created, error_count, facadeRest>>

\* the cleanup DELETE is answered: one record at base_total + i
CleanupResponse ==
    /\ fpc = "engine"
    /\ phase = "cleanup"
    /\ epc = "req"
    /\ \E resp \in CleanupResponses :
        results' = Append(results,
            cleanup_result(CleanupBase(Scen, total_requests, idx) + di, resp, ResponseMs))
    /\ di' = di + 1
    /\ epc' = "seq"
    /\ UNCHANGED <<phase, permits, task, created_ids, idx, wireVars, error_count, facadeRest>>

\* scenario_add_remove_members, step 1: the POST /Groups is answered
ArmGroupResponse ==
    /\ fpc = "engine"
    /\ phase = "group"
    /\ epc = "req"
    /\ \E resp \in PostResponses :
        /\ results' = Append(results, build_result(idx, "POST", resp, ResponseMs))
        /\ error_count' = count_error(error_count, resp)
        /\ IF resp = 201
           THEN /\ created' = created \cup {GroupRid}
                /\ phase' = "users"
                /\ epc' = "seq"
           ELSE /\ created' = created
                /\ phase' = "returned"
                /\ epc' = "none"
    /\ idx' = idx + 1
    /\ di' = 0
    /\ UNCHANGED <<permits, task, created_ids, delete_issued, http_requests,
                   facadeRest>>

\* scenario_add_remove_members, top of the loops of steps 2, 3 and 4; leaving
\* the last loop sends the DELETE of the group
ArmLoop ==
    /\ fpc = "engine"
    /\ phase \in {"users", "add", "remove"}
    /\ epc = "seq"
    /\ LET bound == IF phase = "users" THEN total_requests ELSE Len(created_ids)
       IN  IF di < bound /\ ~cancel_flag
           THEN /\ epc' = "req"
                /\ http_requests' = http_requests + 1
                /\ UNCHANGED <<phase, di, delete_issued>>
           ELSE /\ di' = 0
                /\ http_requests' = IF phase = "remove"
                                    THEN http_requests + 1
                                    ELSE http_requests
                /\ phase' = CASE phase = "users" -> "add"
                              [] phase = "add" -> "remove"
                              [] OTHER -> "group_delete"
                /\ epc' = IF phase = "remove" THEN "req" ELSE "seq"
                /\ delete_issued' = IF phase = "remove"
                                    THEN delete_issued \cup {GroupRid}
                                    ELSE delete_issued
    /\ UNCHANGED <<permits, task, created_ids, results, idx, created, error_count, facadeRest>>

\* scenario_add_remove_members: the request of step 2, 3 or 4 is answered
ArmResponse ==
    /\ fpc = "engine"
    /\ phase \in {"users", "add", "remove"}
    /\ epc = "req"
    /\ \E resp \in (IF phase = "users" THEN PostResponses ELSE OtherResponses) :
        /\ error_count' = count_error(error_count, resp)
        /\ results' = Append(results,
               build_result(idx, IF phase = "users" THEN "POST" ELSE "PATCH", resp, ResponseMs))
        /\ IF phase = "users" /\ resp = 201
           THEN /\ created_ids' = Append(created_ids, <<"Users", di>>)
                /\ created' = created \cup {<<"Users", di>>}
           ELSE UNCHANGED <<created_ids, created>>
    /\ idx' = idx + 1
    /\ di' = di + 1
    /\ epc' = "seq"
    /\ UNCHANGED <<phase, permits, task, delete_issued, http_requests, facadeRest>>

\* scenario_add_remove_members, step 5: the DELETE of the group is answered
\* (`let _ = ...`: no record), then cleanup_users(user_ids, base_total = idx)
ArmGroupDeleteResponse ==
    /\ fpc = "engine"
    /\ phase = "group_delete"
    /\ epc = "req"
    /\ EnterCleanup(created_ids)
    /\ di' = 0
    /\ UNCHANGED <<permits, task, created_ids, results, idx, wireVars, error_count, facadeRest>>

Next ==
    \/ StartLoadTest
    \/ SaveRunningRun
    \/ RunScenario
    \/ SaveLoadTestResults
    \/ SaveCompletedRun
    \/ RemoveCancelFlag
    \/ (RunId \in cancel_flags /\ StopLoadTest(RunId))
    \/ DeleteTestRun
    \/ DispatchLoop
    \/ DispatchAcquire
    \/ \E i \in Units : TaskStart(i)
    \/ \E i \in Units : TaskResponse(i)
    \/ \E i \in Units : LifecyclePostResponse(i)
    \/ \E i \in Units : LifecycleGetResponse(i)
    \/ \E i \in Units : LifecycleDeleteResponse(i)
    \/ CollectResults
    \/ CleanupLoop
    \/ CleanupResponse
    \/ ArmGroupResponse
    \/ ArmLoop
    \/ ArmResponse
    \/ ArmGroupDeleteResponse

Spec == Init /\ [][Next]_vars

\* ------------------------------------------------------------ SpecSummary
InitSummary ==
    /\ scenario = "create_users"
    /\ total_requests = 0
    /\ concurrency = 0
    /\ server_config_id = KnownServer
    /\ IdleFacade
    /\ IdleEngine
    /\ vresults \in SeqsUpTo(ValidationResults, MaxResults)
    /\ vsummary = NoVSummary
    /\ vpc = "call"
    /\ created_user_id = None
    /\ probes = {}
    /\ IdleExt

\* run_validation, line 123: compute_summary(&results)
ComputeSummary ==
    /\ vpc = "call"
    /\ vsummary' = validation_compute_summary(vresults)
    /\ vpc' = "done"
    /\ UNCHANGED <<configVars, cancel_flags, cancel_flag, storeVars, facadeVars,
                   engineVars, wireVars, results_at_cancel, stop_ret, vresults, extVars,
                   created_user_id, probes>>

NextSummary == ComputeSummary

SpecSummary == InitSummary /\ [][NextSummary]_vars

\* ---------------------------------------------------------- SpecUsersCrud
\* run_validation with categories = ["users_crud"]: the six probes of
\* test_users_crud one after the other, then compute_summary
loadTestVars == <<configVars, cancel_flags, cancel_flag, storeVars, facadeVars,
                  engineVars, wireVars, results_at_cancel, stop_ret>>

\* what the server (or the transport) can answer to a probe
CreateAnswers == {"created", "no_id", "status_500", "transport_error"}
FilterAnswers == {"found", "zero_results", "status_500", "transport_error"}
ProbeAnswers == {"expected", "status_500", "transport_error"}

\* the result a probe pushes for an answer that is not the expected one
FailedProbe(answer) ==
    CASE answer = "no_id" ->
            make_result("users_crud", FALSE, Some(<<"Response missing 'id' field">>))
      [] answer = "zero_results" ->
            make_result("users_crud", FALSE, Some(<<"GET with filter returned 0 results">>))
      [] answer = "status_500" ->
            make_result("users_crud", FALSE, Some(<<"Expected status ", "got 500">>))
      [] OTHER ->
            make_result("users_crud", FALSE, Some(<<"error sending request">>))

\* the result pushed in place of a probe that needs the created user
SkippedProbe ==
    make_result("users_crud", FALSE, Some(<<"Skipped", ": user creation failed">>))

InitUsersCrud ==
    /\ scenario = "create_users"
    /\ total_requests = 0
    /\ concurrency = 0
    /\ server_config_id = KnownServer
    /\ IdleFacade
    /\ IdleEngine
    /\ vresults = <<>>
    /\ vsummary = NoVSummary
    /\ vpc = "test1"
    /\ created_user_id = None
    /\ probes = {}
    /\ IdleExt

\* Test 1, lines 394-448: POST /Users
CrudCreate ==
    /\ vpc = "test1"
    /\ \E answer \in CreateAnswers :
        /\ created_user_id' = IF answer = "created" THEN Some(<<"id">>) ELSE None
        /\ vresults' = Append(vresults,
               IF answer = "created"
               THEN make_result("users_crud", TRUE, None)
               ELSE FailedProbe(answer))
    /\ probes' = probes \cup {1}
    /\ vpc' = "test2"
    /\ UNCHANGED <<loadTestVars, extVars, vsummary>>

\* Test 2, lines 450-505: GET /Users?filter=..
CrudVerifyCreate ==
    /\ vpc = "test2"
    /\ \E answer \in FilterAnswers :
        vresults' = Append(vresults,
            IF answer = "found"
            THEN make_result("users_crud", TRUE, None)
            ELSE FailedProbe(answer))
    /\ probes' = probes \cup {2}
    /\ vpc' = "test3"
    /\ UNCHANGED <<loadTestVars, extVars, vsummary, created_user_id>>

\* Test 3, lines 507-556: GET /Users
CrudList ==
    /\ vpc = "test3"
    /\ \E answer \in ProbeAnswers :
        vresults' = Append(vresults,
            IF answer = "expected"
            THEN make_result("users_crud", TRUE, None)
            ELSE FailedProbe(answer))
    /\ probes' = probes \cup {3}
    /\ vpc' = "test4"
    /\ UNCHANGED <<loadTestVars, extVars, vsummary, created_user_id>>

\* position of test_users_crud before test n; after test 6 it returns and
\* run_validation calls compute_summary
TestPc(n) ==
    CASE n = 4 -> "test4"
      [] n = 5 -> "test5"
      [] n = 6 -> "test6"
      [] OTHER -> "call"

\* Tests 4, 5 and 6, lines 558-692: PUT, DELETE and GET of /Users/{id}, each
\* inside `if let Some(ref user_id) = created_user_id`
CrudDependent(n) ==
    /\ vpc = TestPc(n)
    /\ IF created_user_id.some
       THEN /\ \E answer \in ProbeAnswers :
                vresults' = Append(vresults,
                    IF answer = "expected"
                    THEN make_result("users_crud", TRUE, None)
                    ELSE FailedProbe(answer))
            /\ probes' = probes \cup {n}
       ELSE /\ vresults' = Append(vresults, SkippedProbe)
            /\ probes' = probes
    /\ vpc' = TestPc(n + 1)
    /\ UNCHANGED <<loadTestVars, extVars, vsummary, created_user_id>>

NextUsersCrud ==
    \/ CrudCreate
    \/ CrudVerifyCreate
    \/ CrudList
    \/ \E n \in 4 .. 6 : CrudDependent(n)
    \/ ComputeSummary

SpecUsersCrud == InitUsersCrud /\ [][NextUsersCrud]_vars

\* -------------------------------------------------------- SpecLoadSummary
\* start_load_test at the moment run_scenario has returned, with every list of
\* results up to MaxSummaryLen and the list of ten results that took
\* 1, 2, .. 10 ms
Latencies == 1 .. MaxLatency

\* what one request can have produced: its status and the time it took
Outcomes == ({200, 500} \X Latencies) \cup {<<TransportErr, 0>>}

\* the results of requests 0 .. len-1 with the outcomes `os`
ResultsOf(os) ==
    [k \in 1 .. Len(os) |-> build_result(k - 1, "GET", os[k][1], os[k][2])]

TenLatencies == [k \in 1 .. 10 |-> build_result(k - 1, "GET", 200, k)]

InitLoadSummary ==
    /\ scenario = "list_users"
    /\ total_requests \in 0 .. 10
    /\ concurrency = 1
    /\ server_config_id = KnownServer
    /\ cancel_flags = {RunId}
    /\ cancel_flag = FALSE
    /\ test_runs = RunningRow
    /\ load_test_results = <<>>
    /\ fpc = "engine"
    /\ ret = "none"
    /\ summary = NoSummary
    /\ status = "none"
    /\ run_writes = <<"running">>
    /\ phase = "returned"
    /\ epc = "none"
    /\ di = 0
    /\ permits = 0
    /\ task = NoTasks
    /\ created_ids = <<>>
    /\ results \in {ResultsOf(os) : os \in SeqsUpTo(Outcomes, MaxSummaryLen)}
                     \cup {TenLatencies}
    /\ total_requests = Len(results)
    /\ idx = 0
    /\ error_count = 0
    /\ created = {}
    /\ delete_issued = {}
    /\ http_requests = 0
    /\ results_at_cancel = -1
    /\ stop_ret = NoStop
    /\ vresults = <<>>
    /\ vsummary = NoVSummary
    /\ vpc = "off"
    /\ created_user_id = None
    /\ probes = {}
    /\ IdleExt

NextLoadSummary == SaveLoadTestResults

SpecLoadSummary == InitLoadSummary /\ [][NextLoadSummary]_vars

\* --------------------------------------------------------------- SpecStop
\* start_load_test from the return of run_scenario to its own return, with
\* stop_load_test invoked at any moment for the run or for an unknown run
NextStop ==
    \/ SaveLoadTestResults
    \/ SaveCompletedRun
    \/ RemoveCancelFlag
    \/ \E r \in {RunId, UnknownRun} : StopLoadTest(r)

SpecStop == InitLoadSummary /\ [][NextStop]_vars


\* ----------------------------------------------------------- SpecCommands
\* One command of the facade, invoked on the store as it is after start-up:
\* run_validation with ValidationEngine::run, execute_scim_request, and
\* start_load_test up to the registration of its cancel flag (its
\* continuation is explored under Spec).
MaxCategories == 2      \* longest category list explored
MaxRules == 2           \* most field-mapping rules explored
MaxAttrs == 2           \* most discovered custom attributes explored

Categories ==
    {"schema_discovery", "users_crud", "groups_crud", "patch_operations",
     "filtering_pagination", "duplicate_detection", "soft_delete",
     "group_operations", "field_mapping", "custom_schema"}

\* config.categories may hold any strings; both matches have a catch-all arm
CategoryNames == Categories \cup {"no_such_category"}

\* the methods execute_scim_request maps to a reqwest::Method
Methods == {"GET", "POST", "PUT", "PATCH", "DELETE"}

\* request.method as the frontend may send it
RequestMethods == Methods \cup {"get", "Patch", "HEAD", "fetch", ""}

\* str::to_uppercase on the methods explored
to_uppercase(m) ==
    CASE m = "get" -> "GET"
      [] m = "Patch" -> "PATCH"
      [] m = "fetch" -> "FETCH"
      [] OTHER -> m

\* attr_type of the attributes discover_schema_attributes can return
AttrTypes == {"boolean", "string"}

\* count_custom_schema_tests
count_custom_schema_tests(attrs) ==
    IF attrs = <<>>
    THEN 1
    ELSE LET booleans == Cardinality({k \in 1 .. Len(attrs) : attrs[k] = "boolean"})
             others == Cardinality({k \in 1 .. Len(attrs) : attrs[k] # "boolean"})
         IN  booleans * 2 + others

\* usize::max
max(a, b) == IF a >= b THEN a ELSE b

\* run, lines 59-71: what one category adds to total_tests, with a mapping
\* category counted as rules.len()
CategoryCountNoPlaceholder(cat, n, attrs) ==
    CASE cat \in {"schema_discovery", "soft_delete"} -> 3
      [] cat \in {"users_crud", "groups_crud", "group_operations"} -> 6
      [] cat \in {"patch_operations", "filtering_pagination", "duplicate_detection"} -> 4
      [] cat = "field_mapping" -> n
      [] cat = "custom_schema" -> count_custom_schema_tests(attrs)
      [] OTHER -> 0

\* run, lines 59-71: what one category adds to total_tests
CategoryCount(cat, n, attrs) ==
    CASE cat = "schema_discovery" -> 3
      [] cat = "users_crud" -> 6
      [] cat = "groups_crud" -> 6
      [] cat = "patch_operations" -> 4
      [] cat = "filtering_pagination" -> 4
      [] cat = "duplicate_detection" -> 4
      [] cat = "soft_delete" -> 3
      [] cat = "group_operations" -> 6
      [] cat = "field_mapping" -> max(n, 1)
      [] cat = "custom_schema" -> count_custom_schema_tests(attrs)
      [] OTHER -> 0

\* run, lines 57-72: the loop that sums the counts
RECURSIVE CountTotalTests(_, _, _)
CountTotalTests(cats, n, attrs) ==
    IF cats = <<>>
    THEN 0
    ELSE CategoryCount(Head(cats), n, attrs) + CountTotalTests(Tail(cats), n, attrs)

\* test_custom_schema, lines 1242-1261: the tests its loop over attrs runs
RECURSIVE CustomAttrTests(_)
CustomAttrTests(attrs) ==
    IF attrs = <<>>
    THEN 0
    ELSE (IF Head(attrs) = "boolean" THEN 2 ELSE 1) + CustomAttrTests(Tail(attrs))

\* the number of tests the function of a category runs: each is an
\* emit_progress, a probe (or a skip), a results.push and `*completed += 1`
TestsRun(cat, n, attrs) ==
    CASE cat = "schema_discovery" -> 3      \* test_schema_discovery
      [] cat = "users_crud" -> 6            \* test_users_crud
      [] cat = "groups_crud" -> 6           \* test_groups_crud
      [] cat = "patch_operations" -> 4      \* test_patch_operations
      [] cat = "filtering_pagination" -> 4  \* test_filtering_pagination
      [] cat = "duplicate_detection" -> 4   \* test_duplicate_detection
      [] cat = "soft_delete" -> 3           \* test_soft_delete
      [] cat = "group_operations" -> 6      \* test_group_operations
      [] cat = "field_mapping" ->           \* test_field_mapping
            IF n = 0 THEN 1 ELSE n
      [] cat = "custom_schema" ->           \* test_custom_schema
            IF attrs = <<>> THEN 1 ELSE CustomAttrTests(attrs)
      [] OTHER -> 0                         \* `_ => Vec::new()`

\* the cancel flag is never loaded
CancelNeverRequested(flag) == FALSE

\* cancel_flag.load(Ordering::Relaxed)
CancelRequested(flag) == flag

\* emit_progress: the event's completed and total
ValidationProgress(cat) ==
    [current_category |-> cat, completed |-> completed, total |-> total_tests]

\* the result a test pushes, by how the server answers in this run
TestResult(cat) ==
    IF answers = "expected"
    THEN make_result(cat, TRUE, None)
    ELSE make_result(cat, FALSE, Some(<<"Expected status ", "got 500">>))

InitCommands ==
    /\ scenario = "create_users"
    /\ total_requests = 0
    /\ concurrency = 0
    /\ server_config_id \in ServerConfigIds
    /\ IdleFacade
    /\ IdleEngine
    /\ vresults = <<>>
    /\ vsummary = NoVSummary
    /\ vpc = "off"
    /\ created_user_id = None
    /\ probes = {}
    /\ command \in {"start_load_test", "run_validation", "execute_scim_request"}
    /\ request_method \in RequestMethods
    /\ command # "execute_scim_request" => request_method = "GET"
    /\ cpc = "idle"
    /\ cret = "none"
    /\ validation_results = <<>>
    /\ categories \in SeqsUpTo(CategoryNames, MaxCategories)
    /\ rules \in 0 .. MaxRules
    /\ answers \in {"expected", "status_500"}
    /\ command # "run_validation" => (categories = <<>> /\ rules = 0 /\ answers = "expected")
    /\ IdleValidation
    /\ IdleMulti
    /\ IdleAux

commandRest == <<configVars, cancel_flags, cancel_flag, load_test_results, facadeVars,
                 engineVars, created, delete_issued, results_at_cancel, stop_ret,
                 vsummary, created_user_id, probes, command, request_method,
                 categories, rules, answers, multiVars, auxVars>>

\* run_validation, lines 92-109: look the server up, build the client, write
\* the run as running
RunValidation ==
    /\ command = "run_validation"
    /\ cpc = "idle"
    /\ \E built \in BOOLEAN, ok \in BOOLEAN :
        IF ~get_server_config(server_config_id)
        THEN /\ cpc' = "returned"
             /\ cret' = "Err: Server config not found"
             /\ test_runs' = test_runs
        ELSE IF ~built \/ ~ok
        THEN /\ cpc' = "returned"
             /\ cret' = "Err"
             /\ test_runs' = test_runs
        ELSE /\ cpc' = "run"
             /\ cret' = cret
             /\ test_runs' = RunningRow
    /\ UNCHANGED <<commandRest, http_requests, validation_results, vresults, vpc,
                   vcancel, custom_attrs, total_tests, completed, ci, ti, vevents>>

\* lines 112-115: get_field_mapping_rules(..)?, then ValidationEngine::run up
\* to its first suspension point: GET /Schemas when custom_schema is among the
\* categories, the loop over the categories otherwise
ValidationRun ==
    /\ cpc = "run"
    /\ \E ok \in BOOLEAN :
        IF ~ok
        THEN /\ cpc' = "returned"
             /\ cret' = "Err"
             /\ UNCHANGED <<vpc, http_requests, total_tests>>
        ELSE /\ cpc' = "engine"
             /\ cret' = cret
             /\ IF \E k \in 1 .. Len(categories) : categories[k] = "custom_schema"
                THEN /\ vpc' = "discover"
                     /\ http_requests' = http_requests + 1
                     /\ total_tests' = total_tests
                ELSE /\ vpc' = "loop"
                     /\ http_requests' = http_requests
                     /\ total_tests' = CountTotalTests(categories, rules, <<>>)
    /\ UNCHANGED <<commandRest, storeVars, validation_results, vresults, vcancel,
                   custom_attrs, completed, ci, ti, vevents>>

\* lines 51-72: discover_schema_attributes has returned; total_tests is summed
ValidationDiscovered ==
    /\ vpc = "discover"
    /\ \E attrs \in SeqsUpTo(AttrTypes, MaxAttrs) :
        /\ custom_attrs' = attrs
        /\ total_tests' = CountTotalTests(categories, rules, attrs)
    /\ vpc' = "loop"
    /\ UNCHANGED <<commandRest, storeVars, http_requests, validation_results, cpc,
                   cret, vresults, vcancel, completed, ci, ti, vevents>>

\* lines 76-116: the head of the for-loop. The flag is loaded, and the
\* function of the category is entered up to the request of its first test;
\* after the last category, or on a set flag, run returns
ValidationLoop ==
    /\ vpc = "loop"
    /\ IF ci > Len(categories) \/ CancelRequested(vcancel)
       THEN /\ vpc' = "returned"
            /\ cpc' = "save_results"
            /\ UNCHANGED <<ci, ti, vevents, http_requests>>
       ELSE IF TestsRun(categories[ci], rules, custom_attrs) = 0
       THEN /\ ci' = ci + 1
            /\ UNCHANGED <<vpc, cpc, ti, vevents, http_requests>>
       ELSE /\ vpc' = "test"
            /\ ti' = 1
            /\ vevents' = Append(vevents, ValidationProgress(categories[ci]))
            /\ http_requests' = http_requests + 1
            /\ UNCHANGED <<cpc, ci>>
    /\ UNCHANGED <<commandRest, storeVars, validation_results, cret, vresults,
                   vcancel, custom_attrs, total_tests, completed>>

\* one test of the category has its answer: results.push, `*completed += 1`,
\* and either the emit_progress and request of the next test or the return to
\* the loop of run, which extends results
ValidationTest ==
    /\ vpc = "test"
    /\ vresults' = Append(vresults, TestResult(categories[ci]))
    /\ completed' = completed + 1
    /\ IF ti < TestsRun(categories[ci], rules, custom_attrs)
       THEN /\ ti' = ti + 1
            /\ vevents' = Append(vevents,
                   [ValidationProgress(categories[ci]) EXCEPT !.completed = completed + 1])
            /\ http_requests' = http_requests + 1
            /\ UNCHANGED <<vpc, ci>>
       ELSE /\ vpc' = "loop"
            /\ ci' = ci + 1
            /\ ti' = 0
            /\ UNCHANGED <<vevents, http_requests>>
    /\ UNCHANGED <<commandRest, storeVars, validation_results, cpc, cret, vcancel,
                   custom_attrs, total_tests>>

\* whoever holds the Arc<AtomicBool> handed to run stores true into it
CancelValidation ==
    /\ vpc \in {"discover", "loop", "test"}
    /\ ~vcancel
    /\ vcancel' = TRUE
    /\ UNCHANGED <<commandRest, storeVars, http_requests, validation_results, cpc,
                   cret, vresults, vpc, custom_attrs, total_tests, completed, ci, ti,
                   vevents>>

\* run_validation, lines 118-135: save_validation_result(r)? for each result
\* in turn, `saved` of them before one fails, then compute_summary and
\* save_test_run(completed_run)?
SaveValidationResults ==
    /\ cpc = "save_results"
    /\ cpc' = "returned"
    /\ \E saved \in 0 .. Len(vresults), ok \in BOOLEAN :
        /\ validation_results' = validation_results \o SubSeq(vresults, 1, saved)
        /\ IF saved < Len(vresults)
           THEN /\ cret' = "Err"
                /\ UNCHANGED <<test_runs, vsummary>>
           ELSE /\ vsummary' = validation_compute_summary(vresults)
                /\ IF ok
                   THEN /\ test_runs' = [status |-> "completed", completed_at |-> TRUE,
                                         summary_json |-> validation_compute_summary(vresults)]
                        /\ cret' = "Ok"
                   ELSE /\ test_runs' = test_runs
                        /\ cret' = "Err"
    /\ UNCHANGED <<configVars, cancel_flags, cancel_flag, load_test_results,
                   facadeVars, engineVars, wireVars, results_at_cancel, stop_ret,
                   vresults, vpc, created_user_id, probes, command, request_method,
                   validationVars, multiVars, auxVars>>

\* execute_scim_request, lines 380-406: look the server up, build the client,
\* match the method, send the request
ExecuteScimRequest ==
    /\ command = "execute_scim_request"
    /\ cpc = "idle"
    /\ \E built \in BOOLEAN :
        IF ~get_server_config(server_config_id)
        THEN /\ cpc' = "returned"
             /\ cret' = "Err: Server config not found"
             /\ http_requests' = http_requests
        ELSE IF ~built
        THEN /\ cpc' = "returned"
             /\ cret' = "Err"
             /\ http_requests' = http_requests
        ELSE IF to_uppercase(request_method) \notin Methods
        THEN /\ cpc' = "returned"
             /\ cret' = "Err: Unsupported HTTP method"
             /\ http_requests' = http_requests
        ELSE /\ cpc' = "request"
             /\ cret' = cret
             /\ http_requests' = http_requests + 1
    /\ UNCHANGED <<commandRest, storeVars, validation_results, vresults, vpc,
                   vcancel, custom_attrs, total_tests, completed, ci, ti, vevents>>

\* lines 406-415: request_full(..).await? has its answer
ExecuteScimResponse ==
    /\ cpc = "request"
    /\ cpc' = "returned"
    /\ \E answer \in {"Ok", "Err"} : cret' = answer
    /\ UNCHANGED <<commandRest, storeVars, http_requests, validation_results,
                   vresults, vpc, vcancel, custom_attrs, total_tests, completed, ci,
                   ti, vevents>>

NextCommands ==
    \/ (command = "start_load_test" /\ StartLoadTest)
    \/ RunValidation
    \/ ValidationRun
    \/ ValidationDiscovered
    \/ ValidationLoop
    \/ ValidationTest
    \/ CancelValidation
    \/ SaveValidationResults
    \/ ExecuteScimRequest
    \/ ExecuteScimResponse

SpecCommands == InitCommands /\ [][NextCommands]_vars


\* -------------------------------------------------------------- SpecMulti
\* LoadTestEngine::run_scenario with config.scenarios of two or more names:
\* run_multi_scenario spawns one task per scenario, awaits the handles in
\* order and re-indexes what they returned. What a scenario returns is any
\* list of results, with any request indices.
MaxScenarios == 3       \* longest config.scenarios explored
MaxTotal == 5           \* largest config.total_requests explored here
MaxSubResults == 2      \* longest result list one scenario returns

\* the names config.scenarios is filled from, in this order
ScenarioOrder ==
    <<"create_users", "list_users", "full_lifecycle", "no_such_scenario",
      "create_groups", "update_groups">>

\* total_requests / scenarios.len().max(1), rounded up
RequestsPerScenarioRoundedUp(total, n) == (total + max(n, 1) - 1) \div max(n, 1)

\* line 71: config.total_requests / scenarios.len().max(1)
requests_per_scenario(total, n) == total \div max(n, 1)

\* the results are handed back as they were collected
KeepIndices(rs) == rs

\* lines 94-97: r.request_index = i for (i, r) in all_results.iter_mut().enumerate()
Reindex(rs) == [k \in 1 .. Len(rs) |-> [rs[k] EXCEPT !.request_index = k - 1]]

\* what dispatch_scenario can hand back: results with any request indices
ScenarioReturns ==
    {[k \in 1 .. Len(is) |-> build_result(is[k], "GET", 200, ResponseMs)] :
        is \in SeqsUpTo(0 .. 1, MaxSubResults)}

NoHandles == <<>>

InitMulti ==
    /\ scenario = "create_users"
    /\ total_requests \in 0 .. MaxTotal
    /\ concurrency = 1
    /\ server_config_id = KnownServer
    /\ cancel_flags = {RunId}
    /\ cancel_flag = FALSE
    /\ test_runs = RunningRow
    /\ load_test_results = <<>>
    /\ fpc = "run_scenario"
    /\ ret = "none"
    /\ summary = NoSummary
    /\ status = "none"
    /\ run_writes = <<"running">>
    /\ IdleEngine
    /\ created = {}
    /\ delete_issued = {}
    /\ http_requests = 0
    /\ results_at_cancel = -1
    /\ stop_ret = NoStop
    /\ vresults = <<>>
    /\ vsummary = NoVSummary
    /\ vpc = "off"
    /\ created_user_id = None
    /\ probes = {}
    /\ IdleCommand
    /\ \E n \in 2 .. MaxScenarios : scenarios = SubSeq(ScenarioOrder, 1, n)
    /\ handles = NoHandles
    /\ all_results = <<>>
    /\ joined = 0
    /\ mpc = "call"
    /\ IdleAux

multiRest == <<configVars, cancel_flags, cancel_flag, storeVars, facadeVars,
               engineVars, wireVars, results_at_cancel, stop_ret, vresults, vsummary,
               vpc, created_user_id, probes, commandVars, scenarios, auxVars>>

\* run_scenario, lines 27-30, and run_multi_scenario, lines 70-85: one task
\* per scenario is spawned on a sub_config with requests_per_scenario units
SpawnScenarios ==
    /\ mpc = "call"
    /\ Len(scenarios) > 1
    /\ handles' = [k \in 1 .. Len(scenarios) |->
                     [scenario |-> dispatch_scenario(scenarios[k]),
                      total_requests |-> requests_per_scenario(total_requests, Len(scenarios)),
                      state |-> "running",
                      out |-> <<>>]]
    /\ mpc' = "join"
    /\ UNCHANGED <<multiRest, all_results, joined>>

\* the task of scenario k ends: dispatch_scenario returned, or the task
\* panicked
ScenarioEnds(k) ==
    /\ mpc = "join"
    /\ k \in 1 .. Len(handles)
    /\ handles[k].state = "running"
    /\ \/ \E rs \in ScenarioReturns :
            handles' = [handles EXCEPT ![k].state = "returned", ![k].out = rs]
       \/ handles' = [handles EXCEPT ![k].state = "panicked"]
    /\ UNCHANGED <<multiRest, all_results, joined, mpc>>

\* lines 87-92: handle.await of the next handle; Ok(results) extends
\* all_results, a JoinError is passed over
JoinHandle ==
    /\ mpc = "join"
    /\ joined < Len(handles)
    /\ handles[joined + 1].state # "running"
    /\ all_results' = all_results \o handles[joined + 1].out
    /\ joined' = joined + 1
    /\ UNCHANGED <<multiRest, handles, mpc>>

\* lines 94-98: every handle is joined; re-index and return
ReturnMulti ==
    /\ mpc = "join"
    /\ joined = Len(handles)
    /\ all_results' = Reindex(all_results)
    /\ mpc' = "returned"
    /\ UNCHANGED <<multiRest, handles, joined>>

NextMulti ==
    \/ SpawnScenarios
    \/ \E k \in 1 .. MaxScenarios : ScenarioEnds(k)
    \/ JoinHandle
    \/ ReturnMulti

SpecMulti == InitMulti /\ [][NextMulti]_vars

\* ----------------------------------------------------------- SpecProgress
\* The loadtest-progress events of one uncancelled scenario: the `completed`
\* counter, the totals and emit_phase_progress, task by task. The tasks of a
\* phase are taken one after the other (fetch_add hands every value of the
\* counter to exactly one task).
MaxProgressUnits == 5   \* largest config.total_requests explored here

\* the total the tasks of a scenario pass to emit_phase_progress
total_http(s, n) ==
    CASE s \in {"create_update", "update_groups"} -> n * 2
      [] s \in {"full_lifecycle", "group_lifecycle"} -> n * 3
      [] s = "add_remove_members" -> 1 + n * 3 + 1 + n
      [] OTHER -> n

\* emit_phase_progress: the events it adds to `evs`
emit_phase_progress(evs, ph, comp, total) ==
    IF comp % 10 = 0 \/ comp = total
    THEN Append(evs, [phase |-> ph, completed |-> comp, total |-> total])
    ELSE evs

\* the phase a scenario starts in
FirstProgressPhase(s) ==
    CASE s \in {"full_lifecycle", "group_lifecycle"} -> "lifecycle"
      [] s = "list_users" -> "list"
      [] s = "add_remove_members" -> "group"
      [] OTHER -> "create"

\* the phase that follows phase ph
NextProgressPhase(s, ph) ==
    CASE ph = "create" /\ s \in {"create_update", "update_groups"} -> "update"
      [] ph \in {"create", "update"} -> "cleanup"
      [] ph = "arm_create" -> "arm_add"
      [] ph = "arm_add" -> "arm_remove"
      [] ph = "arm_remove" -> "arm_delete"
      [] ph = "arm_delete" -> "cleanup"
      [] OTHER -> "returned"

\* the number of tasks of phase ph, `k` resources having been created
PhaseSize(ph, n, k) ==
    CASE ph \in {"create", "lifecycle", "list", "arm_create"} -> n
      [] ph \in {"update", "arm_add", "arm_remove", "cleanup"} -> k
      [] OTHER -> 1

InitProgress ==
    /\ scenario \in Scenarios
    /\ total_requests \in 0 .. MaxProgressUnits
    /\ concurrency = 1
    /\ server_config_id = KnownServer
    /\ cancel_flags = {RunId}
    /\ cancel_flag = FALSE
    /\ test_runs = RunningRow
    /\ load_test_results = <<>>
    /\ fpc = "run_scenario"
    /\ ret = "none"
    /\ summary = NoSummary
    /\ status = "none"
    /\ run_writes = <<"running">>
    /\ IdleEngine
    /\ created = {}
    /\ delete_issued = {}
    /\ http_requests = 0
    /\ results_at_cancel = -1
    /\ stop_ret = NoStop
    /\ vresults = <<>>
    /\ vsummary = NoVSummary
    /\ vpc = "off"
    /\ created_user_id = None
    /\ probes = {}
    /\ IdleCommand
    /\ IdleMulti
    /\ IdleDiscover
    /\ IdleMore
    /\ ppc = "call"
    /\ pidx = 0
    /\ pcompleted = 0
    /\ pcreated = 0
    /\ levents = <<>>
    /\ ticks = {}
    /\ phase_finals = {}

progressRest == <<configVars, cancel_flags, cancel_flag, storeVars, facadeVars,
                  engineVars, created, delete_issued, results_at_cancel, stop_ret,
                  vresults, vsummary, vpc, created_user_id, probes, commandVars,
                  multiVars, discoverVars, moreVars>>

\* the loop of a phase is entered: a loop over nothing is passed over, and
\* cleanup_users / cleanup_resources over no ids returns at once
RECURSIVE EnterPhase(_, _)
EnterPhase(ph, k) ==
    IF ph \in {"returned", "arm_delete"} \/ PhaseSize(ph, total_requests, k) > 0
    THEN ph
    ELSE EnterPhase(NextProgressPhase(scenario, ph), k)

\* after task `pidx` of phase ppc: the next task of the phase, or the phase
\* that follows
AfterTask(k) ==
    IF pidx + 1 < PhaseSize(ppc, total_requests, k)
    THEN /\ ppc' = ppc
         /\ pidx' = pidx + 1
    ELSE /\ ppc' = EnterPhase(NextProgressPhase(scenario, ppc), k)
         /\ pidx' = 0

\* dispatch_scenario enters the scenario
ProgressStart ==
    /\ ppc = "call"
    /\ ppc' = EnterPhase(FirstProgressPhase(scenario), 0)
    /\ UNCHANGED <<progressRest, http_requests, pidx, pcompleted, pcreated,
                   levents, ticks, phase_finals>>

\* one task of a create phase (lines 131-154, 197-219, 458-480, 719-740) or
\* one pass of the create loop of add_remove_members (lines 630-648)
CreateTask ==
    /\ ppc \in {"create", "arm_create"}
    /\ \E resp \in PostResponses :
        LET comp == pcompleted + 1
            k == IF resp = 201 THEN pcreated + 1 ELSE pcreated
            name == IF scenario \in {"create_users", "create_update", "add_remove_members"}
                    THEN "Creating users" ELSE "Creating groups"
        IN  /\ pcompleted' = comp
            /\ pcreated' = k
            /\ levents' = emit_phase_progress(levents, name, comp,
                                              total_http(scenario, total_requests))
            /\ ticks' = ticks \cup {comp}
            /\ phase_finals' =
                  IF pidx + 1 = total_requests
                  THEN phase_finals \cup {[phase |-> name, completed |-> comp]}
                  ELSE phase_finals
            /\ AfterTask(k)
    /\ http_requests' = http_requests + 1
    /\ UNCHANGED progressRest

\* one task of an update phase (lines 240-251, 761-775), of list_users (lines
\* 409-421), or one pass of the add / remove loops (lines 651-679)
OtherTask ==
    /\ ppc \in {"update", "list", "arm_add", "arm_remove"}
    /\ LET comp == pcompleted + 1
           name == CASE ppc = "list" -> "Listing users"
                     [] ppc = "arm_add" -> "Adding members"
                     [] ppc = "arm_remove" -> "Removing members"
                     [] scenario = "create_update" -> "Updating users"
                     [] OTHER -> "Updating groups"
       IN  /\ pcompleted' = comp
           /\ levents' = emit_phase_progress(levents, name, comp,
                                             total_http(scenario, total_requests))
           /\ ticks' = ticks \cup {comp}
           /\ phase_finals' =
                 IF pidx + 1 = PhaseSize(ppc, total_requests, pcreated)
                 THEN phase_finals \cup {[phase |-> name, completed |-> comp]}
                 ELSE phase_finals
    /\ AfterTask(pcreated)
    /\ http_requests' = http_requests + 1
    /\ UNCHANGED <<progressRest, pcreated>>

\* one unit of full_lifecycle / group_lifecycle, lines 293-367 and 522-586:
\* create, then read and delete, or fetch_add(2) when the create failed
LifecycleUnit ==
    /\ ppc = "lifecycle"
    /\ \E resp \in PostResponses :
        LET total == total_http(scenario, total_requests)
            users == scenario = "full_lifecycle"
            afterCreate ==
                emit_phase_progress(levents,
                                    IF users THEN "Creating users" ELSE "Creating groups",
                                    pcompleted + 1, total)
            afterRead ==
                emit_phase_progress(afterCreate,
                                    IF users THEN "Reading users" ELSE "Reading groups",
                                    pcompleted + 2, total)
            afterDelete ==
                emit_phase_progress(afterRead,
                                    IF users THEN "Deleting users" ELSE "Deleting groups",
                                    pcompleted + 3, total)
        IN  /\ pcompleted' = pcompleted + 3
            /\ IF resp = 201
               THEN /\ levents' = afterDelete
                    /\ ticks' = ticks \cup {pcompleted + 1, pcompleted + 2, pcompleted + 3}
                    /\ http_requests' = http_requests + 3
               ELSE /\ levents' = afterCreate
                    /\ ticks' = ticks \cup {pcompleted + 1, pcompleted + 3}
                    /\ http_requests' = http_requests + 1
            /\ phase_finals' =
                  IF pidx + 1 = total_requests
                  THEN phase_finals \cup {[phase |-> "lifecycle",
                                            completed |-> pcompleted + 3]}
                  ELSE phase_finals
    /\ AfterTask(0)
    /\ UNCHANGED <<progressRest, pcreated>>

\* add_remove_members, lines 606-626: the group is created; without a group
\* id the scenario returns
ArmGroupTask ==
    /\ ppc = "group"
    /\ pcompleted' = pcompleted + 1
    /\ levents' = emit_phase_progress(levents, "Creating group", 1,
                                      total_http(scenario, total_requests))
    /\ ticks' = ticks \cup {pcompleted + 1}
    /\ phase_finals' = phase_finals \cup {[phase |-> "Creating group", completed |-> 1]}
    /\ http_requests' = http_requests + 1
    /\ \E resp \in PostResponses :
        ppc' = IF resp = 201 THEN EnterPhase("arm_create", 0) ELSE "returned"
    /\ UNCHANGED <<progressRest, pidx, pcreated>>

\* add_remove_members, lines 681-683: the group is deleted, and cleanup_users
\* is called with idx as its base_total
ArmDeleteTask ==
    /\ ppc = "arm_delete"
    /\ http_requests' = http_requests + 1
    /\ ppc' = EnterPhase("cleanup", pcreated)
    /\ UNCHANGED <<progressRest, pidx, pcompleted, pcreated, levents,
                   ticks, phase_finals>>

\* the base_total a scenario hands to cleanup_users / cleanup_resources
CleanupBaseTotal ==
    IF scenario = "add_remove_members"
    THEN 1 + total_requests + 2 * pcreated
    ELSE total_http(scenario, total_requests)

\* one pass of the loop of cleanup_users / cleanup_resources, lines 801-846
CleanupTask ==
    /\ ppc = "cleanup"
    /\ LET cleanup_total == pcreated
           comp == CleanupBaseTotal + pidx + 1
       IN  /\ levents' =
                 IF (pidx + 1) % 10 = 0 \/ pidx + 1 = cleanup_total
                 THEN Append(levents, [phase |-> "Cleaning up", completed |-> comp,
                                       total |-> CleanupBaseTotal + cleanup_total])
                 ELSE levents
           /\ phase_finals' =
                 IF pidx + 1 = cleanup_total
                 THEN phase_finals \cup {[phase |-> "Cleaning up", completed |-> comp]}
                 ELSE phase_finals
    /\ AfterTask(pcreated)
    /\ http_requests' = http_requests + 1
    /\ UNCHANGED <<progressRest, pcompleted, pcreated, ticks>>

NextProgress ==
    \/ ProgressStart
    \/ CreateTask
    \/ OtherTask
    \/ LifecycleUnit
    \/ ArmGroupTask
    \/ ArmDeleteTask
    \/ CleanupTask

SpecProgress == InitProgress /\ [][NextProgress]_vars

\* ----------------------------------------------------------- SpecDiscover
\* ValidationEngine::discover_schema_attributes on GET /Schemas answers drawn
\* from small sets. A URN is the sequence of its pieces, as the texts above.
MaxSchemas == 1         \* most schemas in one /Schemas answer
MaxSchemaAttrs == 1     \* most attributes in one schema

ScimUrnPrefix == <<"urn:ietf:params:scim:">>

\* core_schema_prefixes, lines 158-161
core_schema_prefixes ==
    {ScimUrnPrefix \o <<"schemas:core:2.0:">>,
     ScimUrnPrefix \o <<"api:messages:2.0:">>}

\* the schema ids explored: core User, the ListResponse message, the
\* enterprise User extension, a vendor schema
SchemaUrns ==
    {ScimUrnPrefix \o <<"schemas:core:2.0:", "User">>,
     ScimUrnPrefix \o <<"api:messages:2.0:", "ListResponse">>,
     ScimUrnPrefix \o <<"schemas:extension:enterprise:2.0:", "User">>,
     <<"urn:acme:", "schemas:", "Badge">>}

\* a JSON key that is absent, or whose value is not of the type asked for
Missing == "<missing>"

\* the attribute definitions explored: a plain one, and one per way of
\* differing from it
PlainAttribute == [name |-> "costCenter", type |-> "string", multiValued |-> "false"]
SchemaAttributes ==
    {PlainAttribute,
     [PlainAttribute EXCEPT !.name = ""],
     [PlainAttribute EXCEPT !.name = Missing],
     [PlainAttribute EXCEPT !.type = "complex"],
     [PlainAttribute EXCEPT !.type = "binary"],
     [PlainAttribute EXCEPT !.type = "Complex"],
     [PlainAttribute EXCEPT !.type = "dateTime"],
     [PlainAttribute EXCEPT !.type = "boolean"],
     [PlainAttribute EXCEPT !.type = Missing],
     [PlainAttribute EXCEPT !.multiValued = "true"],
     [PlainAttribute EXCEPT !.multiValued = Missing]}

\* the schema documents of one answer: for each schema, `id` may be absent
\* and `attributes` may be absent; the schemas that have an attribute list
\* all carry the list `attrs`
SchemaDocuments(ids, attrs) ==
    [k \in 1 .. Len(ids) |->
        [id |-> ids[k].id,
         attributes |-> IF ids[k].has_attributes
                        THEN [present |-> TRUE, list |-> attrs]
                        ELSE [present |-> FALSE, list |-> <<>>]]]

SchemaHeads ==
    {[id |-> i, has_attributes |-> b] :
        i \in {[present |-> TRUE, urn |-> u] : u \in SchemaUrns}
              \cup {[present |-> FALSE, urn |-> <<>>]},
        b \in BOOLEAN}

\* what GET /Schemas answers: a status and a body; the body is a ListResponse
\* with "Resources" or "resources", a bare array, another JSON value, or no
\* JSON at all
SchemasResponses ==
    {[status |-> st, body |-> k, schemas |-> SchemaDocuments(ids, attrs)] :
        st \in {200}, k \in {"Resources", "resources", "array"},
        ids \in SeqsUpTo(SchemaHeads, MaxSchemas),
        attrs \in SeqsUpTo(SchemaAttributes, MaxSchemaAttrs)}
    \cup {[status |-> st, body |-> k, schemas |-> <<>>] :
            st \in {200, 500}, k \in {"object", "not_json"}}
    \cup {[status |-> 500, body |-> "Resources",
           schemas |-> SchemaDocuments(<<[id |-> [present |-> TRUE,
                                                  urn |-> <<"urn:acme:", "schemas:", "Badge">>],
                                          has_attributes |-> TRUE]>>,
                                       <<PlainAttribute>>)]}

\* str::to_lowercase on the types explored
to_lowercase(t) ==
    CASE t = "Complex" -> "complex"
      [] t = "dateTime" -> "datetime"
      [] OTHER -> t

\* .and_then(|v| v.as_str()).unwrap_or(d)
unwrap_or(v, d) == IF v = Missing THEN d ELSE v

\* line 181 with everything skipped only when the name is empty
SkipEmptyNameOnly(name, attr_type, multi_valued) == name = ""

\* line 181: skip empty, complex, binary, or multi-valued attributes
skip_attribute(name, attr_type, multi_valued) ==
    \/ name = ""
    \/ attr_type = "complex"
    \/ attr_type = "binary"
    \/ multi_valued

\* lines 176-190 for one attribute: what is pushed onto attrs (schema_name is
\* carried along and left out here)
push_attribute(attrs, schema_id, attr) ==
    LET name == unwrap_or(attr.name, "")
        attr_type == unwrap_or(attr.type, "string")
        multi_valued == unwrap_or(attr.multiValued, "false") = "true"
    IN  IF skip_attribute(name, attr_type, multi_valued)
        THEN attrs
        ELSE Append(attrs, [schema_urn |-> schema_id, attr_name |-> name,
                            attr_type |-> to_lowercase(attr_type)])

InitDiscover ==
    /\ scenario = "create_users"
    /\ total_requests = 0
    /\ concurrency = 0
    /\ server_config_id = KnownServer
    /\ IdleFacade
    /\ IdleEngine
    /\ vresults = <<>>
    /\ vsummary = NoVSummary
    /\ vpc = "off"
    /\ created_user_id = None
    /\ probes = {}
    /\ IdleCommand
    /\ IdleMulti
    /\ IdleProgress
    /\ IdleMore
    /\ schemas_response \in SchemasResponses
    /\ discovered = <<>>
    /\ dsi = 1
    /\ dai = 1
    /\ dpc = "call"

discoverRest == <<configVars, cancel_flags, cancel_flag, storeVars, facadeVars,
                  engineVars, created, delete_issued, results_at_cancel, stop_ret,
                  vresults, vsummary, vpc, created_user_id, probes, commandVars,
                  multiVars, progressVars, schemas_response, moreVars>>

\* lines 138-155: GET /Schemas, parse the body, find the schema list
DiscoverGet ==
    /\ dpc = "call"
    /\ dpc' = IF /\ schemas_response.status = 200
                 /\ schemas_response.body \in {"Resources", "resources", "array"}
              THEN "schemas"
              ELSE "returned"
    /\ http_requests' = http_requests + 1
    /\ UNCHANGED <<discoverRest, discovered, dsi, dai>>

\* lines 166-174 and 194: the next schema; a schema whose id starts with a
\* core prefix, or without an "attributes" array, is passed over, and after
\* the last schema attrs is returned
DiscoverSchema ==
    /\ dpc = "schemas"
    /\ IF dsi > Len(schemas_response.schemas)
       THEN /\ dpc' = "returned"
            /\ dsi' = dsi
       ELSE LET schema == schemas_response.schemas[dsi]
                schema_id == IF schema.id.present THEN schema.id.urn ELSE <<>>
            IN  IF \/ \E p \in core_schema_prefixes : starts_with(schema_id, p)
                   \/ ~schema.attributes.present
                THEN /\ dpc' = "schemas"
                     /\ dsi' = dsi + 1
                ELSE /\ dpc' = "attributes"
                     /\ dsi' = dsi
    /\ dai' = 1
    /\ UNCHANGED <<discoverRest, http_requests, discovered>>

\* lines 175-191: one pass of the loop over the schema's attributes
DiscoverAttribute ==
    /\ dpc = "attributes"
    /\ LET schema == schemas_response.schemas[dsi]
           schema_id == IF schema.id.present THEN schema.id.urn ELSE <<>>
       IN  IF dai > Len(schema.attributes.list)
           THEN /\ dpc' = "schemas"
                /\ dsi' = dsi + 1
                /\ dai' = 1
                /\ discovered' = discovered
           ELSE /\ discovered' = push_attribute(discovered, schema_id,
                                                schema.attributes.list[dai])
                /\ dai' = dai + 1
                /\ UNCHANGED <<dpc, dsi>>
    /\ UNCHANGED <<discoverRest, http_requests>>

NextDiscover ==
    \/ DiscoverGet
    \/ DiscoverSchema
    \/ DiscoverAttribute

SpecDiscover == InitDiscover /\ [][NextDiscover]_vars


\* ================================================================ claims
RequestIndices(rs) == {rs[k].request_index : k \in 1 .. Len(rs)}

RowPresent == test_runs.status # "absent"

TerminalStatuses == {"completed", "failed", "cancelled"}

\* C1: the request indices of the results run_scenario returns are exactly
\* 0 .. len(results)-1, for every scenario, every pattern of HTTP outcomes,
\* cancelled or not.
C1_DenseRequestIndex ==
    phase = "returned" => RequestIndices(results) = 0 .. (Len(results) - 1)

\* C2: no two results of one run carry the same request_index, neither in the
\* list the engine builds nor in the rows stored for the run.
C2_UniqueRequestIndex ==
    /\ \A j, k \in 1 .. Len(results) :
         j # k => results[j].request_index # results[k].request_index
    /\ \A j, k \in 1 .. Len(load_test_results) :
         j # k => load_test_results[j].request_index # load_test_results[k].request_index

\* C2 witness: a create_update run of two units has returned with one failed
\* creation, so its results hold two creates, one update and one cleanup record.
C2_Witness ==
    /\ phase = "returned"
    /\ Scen = "create_update"
    /\ total_requests = 2
    /\ Len(created_ids) = 1
    /\ Len(results) = 4

\* C3: once the run's status has been written as completed or cancelled, every
\* resource whose creation was recorded (201 with an id) has had a DELETE
\* issued for it, also when the cancel flag was set during the run.
C3_CreatedAreDeleted ==
    (\E k \in 1 .. Len(run_writes) : run_writes[k] \in {"completed", "cancelled"})
        => created \subseteq delete_issued

\* C4: the cancel-token registry holds the entry of the run exactly while
\* start_load_test is executing; it is gone on every way the command returns.
C4_TokenExactlyWhileExecuting ==
    (RunId \in cancel_flags) <=> (fpc \notin {"idle", "returned"})

\* C5: if stop_load_test returned Ok while start_load_test was executing, the
\* status the command finally stored is cancelled, never completed.
C5_StopOkMeansCancelled ==
    (fpc = "returned" /\ ret = "Ok" /\ cancel_flag /\ RowPresent)
        => test_runs.status = "cancelled"

\* C6: a run written with status running has been rewritten exactly once with
\* a terminal status when its command returns, also when a store write
\* failed; no run is left running after its command returned.
C6_RunningRewrittenOnce ==
    (fpc = "returned" /\ run_writes # <<>>)
        => /\ Len(run_writes) = 2
           /\ run_writes[2] \in TerminalStatuses
           /\ RowPresent => test_runs.status \in TerminalStatuses

\* C7: in every store state a run whose status is completed or cancelled has
\* completed_at set and a summary attached whose total equals the number of
\* results stored for the run.
C7_TerminalRunHasSummary ==
    test_runs.status \in {"completed", "cancelled"}
        => /\ test_runs.completed_at
           /\ test_runs.summary_json.present
           /\ test_runs.summary_json.total_requests = Len(load_test_results)

\* C8: if the cancel flag is set when N results have been produced, a run with
\* concurrency C >= 1 returns between N and N + C results and its status is
\* cancelled, in every scenario.
C8_CancelBoundsResults ==
    (phase = "returned" /\ results_at_cancel >= 0 /\ concurrency >= 1)
        => /\ results_at_cancel <= Len(results)
           /\ Len(results) <= results_at_cancel + concurrency
           /\ status \in {"none", "cancelled"}
           /\ (ret = "Ok" /\ RowPresent) => test_runs.status = "cancelled"

\* C9: with concurrency C >= 1 the number of HTTP requests in flight never
\* exceeds C, in any phase of a single-scenario run.
C9_InFlightBounded ==
    concurrency >= 1 => InFlight <= concurrency

\* C9 witness: as many requests in flight as there are permits, more than one.
C9_Witness ==
    /\ concurrency = MaxConcurrency
    /\ InFlight = concurrency
    /\ InFlight >= 2

\* C10: compute_summary returns total = passed + failed + skipped for every
\* list of validation results, placeholders included.
C10_TotalIsSumOfParts ==
    vpc = "done"
        => vsummary.total = vsummary.passed + vsummary.failed + vsummary.skipped

\* C11: the compliance score compute_summary returns lies between 0 and 100
\* inclusive and equals 100 * passed / (total - skipped), or 0 when
\* total - skipped is 0.
C11_ScoreWithinBounds ==
    vpc = "done"
        => LET sc == vsummary.compliance_score
               den == vsummary.total - vsummary.skipped
           IN  /\ sc.den > 0
               /\ sc.num >= 0
               /\ sc.num <= 100 * sc.den
               /\ IF den = 0 THEN sc.num = 0
                  ELSE sc.num * den = 100 * vsummary.passed * sc.den

\* the summary start_load_test computed from `results`
SummaryComputed == fpc = "save_completed" /\ summary.present

Percentiles == {50, 75, 90, 95, 99}

PercentileField(sm, p) ==
    CASE p = 50 -> sm.p50_latency_ms
      [] p = 75 -> sm.p75_latency_ms
      [] p = 90 -> sm.p90_latency_ms
      [] p = 95 -> sm.p95_latency_ms
      [] OTHER -> sm.p99_latency_ms

\* C13 as stated: for results whose latencies are 1, 2, .. 10 ms the summary
\* has p50 = 6, p75 = 8, p90 = 10, p95 = 10, p99 = 10, min = 1 and max = 10.
C13_TenLatenciesAsStated ==
    (SummaryComputed /\ results = TenLatencies)
        => /\ summary.p50_latency_ms = 6
           /\ summary.p75_latency_ms = 8
           /\ summary.p90_latency_ms = 10
           /\ summary.p95_latency_ms = 10
           /\ summary.p99_latency_ms = 10
           /\ summary.min_latency_ms = 1
           /\ summary.max_latency_ms = 10

\* C13 amended: for results whose latencies are 1, 2, .. 10 ms the summary
\* has p50 = 6, p75 = 8, p90 = 9, p95 = 10, p99 = 10, min = 1 and max = 10.
C13_TenLatencies ==
    (SummaryComputed /\ results = TenLatencies)
        => /\ summary.p50_latency_ms = 6
           /\ summary.p75_latency_ms = 8
           /\ summary.p90_latency_ms = 9
           /\ summary.p95_latency_ms = 10
           /\ summary.p99_latency_ms = 10
           /\ summary.min_latency_ms = 1
           /\ summary.max_latency_ms = 10

\* C13 witness: the summary of the ten results has been computed.
C13_Witness ==
    /\ SummaryComputed
    /\ results = TenLatencies
    /\ summary.total_requests = 10
    /\ summary.p90_latency_ms = 9

\* the integer nearest to (p/100) * (len-1), a half going up: the k with
\* k - 1/2 <= (p/100) * (len-1) < k + 1/2
NearestRank(len, p) ==
    CHOOSE k \in 0 .. (len - 1) :
        /\ 200 * k - 100 <= 2 * p * (len - 1)
        /\ 2 * p * (len - 1) < 200 * k + 100

\* C14: for every ascending latency list s and every p in {50,75,90,95,99},
\* percentile(s, p) is the element of s at index round((p/100) * (len(s)-1)),
\* a half rounding away from zero; the index never exceeds len(s)-1; the
\* percentile of the empty list is 0.
C14_PercentileIsNearestRank ==
    SummaryComputed
        => LET s == sort(latenciesUnsorted(results))
           IN  \A p \in Percentiles :
                 PercentileField(summary, p) =
                     IF s = <<>> THEN 0 ELSE s[NearestRank(Len(s), p) + 1]

\* C14 witness: two results with different latencies, where (50/100) * 1 is a
\* half and the median is the larger one.
C14_Witness ==
    /\ SummaryComputed
    /\ Len(results) = 2
    /\ summary.min_latency_ms < summary.max_latency_ms
    /\ summary.p50_latency_ms = summary.max_latency_ms

\* C15: for every list of load-test results, the empty one included, the
\* summary has min <= p50 <= p75 <= p90 <= p95 <= p99 <= max.
C15_PercentilesOrdered ==
    SummaryComputed
        => /\ summary.min_latency_ms <= summary.p50_latency_ms
           /\ summary.p50_latency_ms <= summary.p75_latency_ms
           /\ summary.p75_latency_ms <= summary.p90_latency_ms
           /\ summary.p90_latency_ms <= summary.p95_latency_ms
           /\ summary.p95_latency_ms <= summary.p99_latency_ms
           /\ summary.p99_latency_ms <= summary.max_latency_ms

\* C15 witness: three results recorded out of latency order, slowest first,
\* with the median strictly between the extremes.
C15_Witness ==
    /\ SummaryComputed
    /\ Len(results) = 3
    /\ results[1].duration_ms > results[2].duration_ms
    /\ results[1].duration_ms > results[3].duration_ms
    /\ summary.min_latency_ms < summary.p50_latency_ms
    /\ summary.p50_latency_ms < summary.max_latency_ms

\* C16: for every list of results and every total_duration_ms the summary has
\* total_requests = successful + failed, error_rate = 100 * failed / total
\* within [0, 100] (0 for the empty list), and requests_per_second = 0
\* whenever total_duration_ms is 0.
C16_CountsAndRates ==
    SummaryComputed
        => LET er == summary.error_rate
           IN  /\ summary.total_requests = Len(results)
               /\ summary.total_requests = summary.successful + summary.failed
               /\ er.den > 0
               /\ er.num >= 0
               /\ er.num <= 100 * er.den
               /\ IF summary.total_requests = 0 THEN er.num = 0
                  ELSE er.num * summary.total_requests = 100 * summary.failed * er.den
               /\ summary.total_duration_ms = 0 => summary.requests_per_second.num = 0

\* C16 witness: a summary over successes and failures, computed with no
\* time elapsed.
C16_Witness ==
    /\ SummaryComputed
    /\ summary.total_duration_ms = 0
    /\ summary.successful >= 1
    /\ summary.failed >= 1

RECURSIVE DistributionTotal(_, _)
DistributionTotal(dist, codes) ==
    IF codes = {} THEN 0
    ELSE LET c == CHOOSE x \in codes : TRUE
         IN  dist[c] + DistributionTotal(dist, codes \ {c})

\* C17: for every load-test run the counts of the summary's status-code
\* distribution sum to total_requests.
C17_DistributionSumsToTotal ==
    summary.present
        => DistributionTotal(summary.status_code_distribution,
                             DOMAIN summary.status_code_distribution)
               = summary.total_requests

\* the results that record a request that was sent: all but the synthetic
\* records of a lifecycle unit whose create failed
Attempted(rs) ==
    {k \in 1 .. Len(rs) : rs[k].error_message # "Skipped - create failed"}

\* C18: every HTTP request the engine sends yields exactly one LoadTestResult
\* in the returned results, in every scenario, cleanup deletions included.
C18_EveryRequestRecorded ==
    phase = "returned" => Cardinality(Attempted(results)) = http_requests

\* C20: a load test started with a scenario name that is not one of the eight
\* defined scenarios sends no HTTP request and returns an error to the caller.
C20_UnknownScenarioRejected ==
    scenario \notin Scenarios
        => /\ http_requests = 0
           /\ fpc = "returned" => ret = "Err"

\* C19: every recorded result of an attempted request, cleanup DELETE records
\* included, has success = TRUE exactly when 200 <= status < 400; a transport
\* failure is recorded with no status, success = FALSE and an error message.
C19_SuccessIffStatusBelow400 ==
    \A k \in Attempted(results) :
        LET r == results[k]
        IN  IF r.status_code # NoStatus
            THEN r.success <=> (r.status_code >= 200 /\ r.status_code < 400)
            ELSE ~r.success /\ r.error_message # "None"

\* C12: in users_crud, when POST /Users yields no created user id, test 1
\* fails, tests 2, 4, 5 and 6 are recorded as skipped (not passed, failure
\* reason beginning with "Skipped") without their HTTP request being sent,
\* test 3 is still executed, and with a working list the score is 50.
C12_DependentProbesSkipped ==
    (vpc = "done" /\ Len(vresults) = 6 /\ ~created_user_id.some)
        => /\ ~vresults[1].passed
           /\ \A n \in {2, 4, 5, 6} :
                /\ ~vresults[n].passed
                /\ IsSkipped(vresults[n])
                /\ n \notin probes
           /\ 3 \in probes
           /\ vresults[3].passed
                => vsummary.compliance_score.num = 50 * vsummary.compliance_score.den

\* C22: stop_load_test(r) sets the cancel flag of run r when a flag is
\* registered under r; when none is registered (an unknown run, or a run that
\* terminated normally) it returns the error "not found or already
\* completed" and changes no flag, no registry entry and no stored run. The
\* flag of a run is set by nothing but a stop_load_test that found it.
C22_StopSetsRegisteredFlagOnly ==
    [][ /\ (stop_ret' # stop_ret /\ stop_ret'.test_run_id \in cancel_flags)
            => /\ stop_ret'.test_run_id = RunId
               /\ cancel_flag'
               /\ stop_ret'.ret = "Ok"
               /\ UNCHANGED <<cancel_flags, storeVars>>
        /\ (stop_ret' # stop_ret /\ stop_ret'.test_run_id \notin cancel_flags)
            => /\ stop_ret'.ret = "Err: Test run not found or already completed"
               /\ UNCHANGED <<cancel_flag, cancel_flags, storeVars>>
        /\ (cancel_flag' # cancel_flag)
            => (RunId \in cancel_flags /\ stop_ret' = [test_run_id |-> RunId, ret |-> "Ok"])
      ]_vars

\* C22 witness: the run terminated normally without having been stopped, and
\* a stop_load_test for it was then answered with the error.
C22_Witness ==
    /\ fpc = "returned"
    /\ ret = "Ok"
    /\ ~cancel_flag
    /\ test_runs.status = "completed"
    /\ RunId \notin cancel_flags
    /\ stop_ret = [test_run_id |-> RunId,
                   ret |-> "Err: Test run not found or already completed"]

NothingDone ==
    /\ test_runs = NoRow
    /\ load_test_results = <<>>
    /\ validation_results = <<>>
    /\ cancel_flags = {}
    /\ http_requests = 0

\* the explored methods that are none of GET, POST, PUT, PATCH, DELETE in any
\* letter case
UnsupportedMethods == {"HEAD", "fetch", ""}

ErrorReturns == {"Err", "Err: Server config not found", "Err: Unsupported HTTP method"}

\* C21: start_load_test and run_validation called with an unknown
\* server-config id, and execute_scim_request called with a method outside
\* GET/POST/PUT/PATCH/DELETE, return an error and leave all state unchanged: no
\* run record is written, no cancel token is registered, no HTTP request is
\* issued.
C21_ConfigurationFailure ==
    /\ (command \in {"start_load_test", "run_validation"}
            /\ server_config_id \notin server_configs)
        => /\ NothingDone
           /\ fpc \in {"idle", "returned"}
           /\ cpc \in {"idle", "returned"}
           /\ fpc = "returned" => ret = "Err"
           /\ cpc = "returned" => cret = "Err: Server config not found"
    /\ (command = "execute_scim_request" /\ request_method \in UnsupportedMethods)
        => /\ NothingDone
           /\ cpc \in {"idle", "returned"}
           /\ cpc = "returned" => cret \in ErrorReturns

\* C21 witness: execute_scim_request of a known server with method HEAD has
\* returned the unsupported-method error.
C21_Witness ==
    /\ command = "execute_scim_request"
    /\ server_config_id = KnownServer
    /\ request_method = "HEAD"
    /\ cpc = "returned"
    /\ cret = "Err: Unsupported HTTP method"

\* C28: in an uncancelled validation run over any category list, repeated and
\* unknown names included, one validation-progress event is emitted before
\* each test, the completed values of the successive events are
\* 0, 1, .., total-1, and the number of results returned equals the
\* total_tests computed before execution.
C28_ProgressCountsEveryTest ==
    command = "run_validation"
        => /\ Len(vevents) = Len(vresults) + (IF vpc = "test" THEN 1 ELSE 0)
           /\ \A k \in 1 .. Len(vevents) :
                /\ vevents[k].completed = k - 1
                /\ vevents[k].total = total_tests
           /\ (vpc = "returned" /\ ~vcancel)
                => /\ Len(vevents) = total_tests
                   /\ Len(vresults) = total_tests

\* C28 witness: custom_schema, named twice, has run to the end over a boolean
\* and a string attribute: six tests.
C28_Witness ==
    /\ vpc = "returned"
    /\ ~vcancel
    /\ categories = <<"custom_schema", "custom_schema">>
    /\ custom_attrs = <<"boolean", "string">>
    /\ Len(vresults) = 6
    /\ Len(vevents) = 6

\* the category of each result when the functions of `cats` have all run
RECURSIVE ResultCategories(_, _, _)
ResultCategories(cats, n, attrs) ==
    IF cats = <<>>
    THEN <<>>
    ELSE [j \in 1 .. TestsRun(Head(cats), n, attrs) |-> Head(cats)]
            \o ResultCategories(Tail(cats), n, attrs)

\* C29: in a validation run the categories execute in the caller-supplied
\* order and the cancel flag is checked before each category: once it is set
\* no further category is started, a running category executes all its
\* probes, and the results of all categories executed so far are returned.
C29_CancelBetweenCategories ==
    [][ /\ (vcancel /\ vpc = "loop") => (vpc' # "test" /\ ci' = ci)
        /\ (vcancel /\ vpc = "test"
                /\ ti < TestsRun(categories[ci], rules, custom_attrs)) => vpc' = "test"
        /\ vpc' = "returned"
            => \E k \in 0 .. Len(categories) :
                /\ [j \in 1 .. Len(vresults') |-> vresults'[j].category]
                       = ResultCategories(SubSeq(categories, 1, k), rules, custom_attrs')
                /\ k < Len(categories) => vcancel' ]_vars

\* C29 witness: the flag was set while users_crud was running; its six tests
\* are all in the results returned and soft_delete was not started.
C29_Witness ==
    /\ vpc = "returned"
    /\ vcancel
    /\ categories = <<"users_crud", "soft_delete">>
    /\ Len(vresults) = 6
    /\ cret = "Ok"

\* C23: for every multi-scenario run (two or more scenarios), whatever each
\* scenario returns, the combined results have the request indices
\* 0 .. len-1 in list order: dense, strictly increasing, no duplicates.
C23_MultiScenarioReindexed ==
    mpc = "returned"
        => \A k \in 1 .. Len(all_results) : all_results[k].request_index = k - 1

\* C23 witness: two scenarios each returned two results that all carried
\* index 1, and the run has returned the four of them.
C23_Witness ==
    /\ mpc = "returned"
    /\ Len(handles) = 2
    /\ \A k \in 1 .. 2 :
         /\ Len(handles[k].out) = 2
         /\ \A j \in 1 .. 2 : handles[k].out[j].request_index = 1
    /\ Len(all_results) = 4

\* the units the scenarios were dispatched with add up to `n`
RECURSIVE UnitsDispatched(_)
UnitsDispatched(hs) ==
    IF hs = <<>> THEN 0 ELSE Head(hs).total_requests + UnitsDispatched(Tail(hs))

\* C24, as stated: in a multi-scenario run with S >= 2 scenarios and total N
\* every scenario is dispatched with the same unit count and the unit counts
\* add up to N.
C24_SplitAddsUpToTotal ==
    mpc # "call"
        => /\ \A j, k \in 1 .. Len(handles) :
                handles[j].total_requests = handles[k].total_requests
           /\ UnitsDispatched(handles) = total_requests

\* C24, amended: every scenario is dispatched with floor(N / S) units, so the
\* unit counts add up to N minus the remainder N mod S, and to N exactly when
\* S divides N.
C24_SplitIsFloorOfTotal ==
    mpc # "call"
        => /\ \A k \in 1 .. Len(handles) :
                /\ handles[k].total_requests * Len(handles) <= total_requests
                /\ (handles[k].total_requests + 1) * Len(handles) > total_requests
           /\ UnitsDispatched(handles) = total_requests - (total_requests % Len(handles))

\* C24 witness: five units over three scenarios, one unit each.
C24_Witness ==
    /\ mpc = "join"
    /\ total_requests = 5
    /\ Len(handles) = 3
    /\ \A k \in 1 .. 3 : handles[k].total_requests = 1

\* the completed counts the emitted loadtest-progress events carry
EmittedCounts == {levents[i].completed : i \in 1 .. Len(levents)}

\* C26: when a scenario has returned, every multiple of 10 the completed
\* count has reached, and the count of the final task of every phase that
\* ran, is the completed count of a loadtest-progress event that was emitted.
C26_ProgressAtTensAndPhaseEnds ==
    ppc = "returned" =>
        /\ \A c \in ticks : c % 10 = 0 => c \in EmittedCounts
        /\ \A f \in phase_finals : f.completed \in EmittedCounts

\* C27: when a scenario has returned, every loadtest-progress event it
\* emitted carries as its total the number of HTTP requests the scenario
\* issued, cleanup deletions included; so all its events carry one total.
C27_ProgressTotalIsAllRequests ==
    ppc = "returned" =>
        /\ \A i \in 1 .. Len(levents) : levents[i].total = http_requests
        /\ \A i, j \in 1 .. Len(levents) : levents[i].total = levents[j].total

\* GET /Schemas answered 200 with a schema list, and the function returned
DiscoveryReturned ==
    /\ dpc = "returned"
    /\ schemas_response.status = 200
    /\ schemas_response.body \in {"Resources", "resources", "array"}

\* <<i, j>>: attribute j of schema i of the answer
AttributePositions ==
    {pos \in (1 .. Len(schemas_response.schemas)) \X (1 .. MaxSchemaAttrs) :
        pos[2] <= Len(schemas_response.schemas[pos[1]].attributes.list)}

UrnAt(pos) == schemas_response.schemas[pos[1]].id.urn
AttributeAt(pos) == schemas_response.schemas[pos[1]].attributes.list[pos[2]]

\* the attribute has an empty (or no) name, type complex or binary, or
\* multiValued = true
AttributeExcluded(pos) ==
    \/ AttributeAt(pos).name \in {"", Missing}
    \/ AttributeAt(pos).type \in {"complex", "binary"}
    \/ AttributeAt(pos).multiValued = "true"

\* (schema-urn, name, lowercase type) of the attribute; an attribute without
\* a type is a string
TupleAt(pos) ==
    [schema_urn |-> UrnAt(pos),
     attr_name |-> AttributeAt(pos).name,
     attr_type |-> IF AttributeAt(pos).type = Missing THEN "string"
                   ELSE to_lowercase(AttributeAt(pos).type)]

\* the attributes at the positions `kept`, and no others, are returned, once
\* for each position
ReturnedOnce(kept) ==
    \A t \in {discovered[k] : k \in 1 .. Len(discovered)} \cup {TupleAt(pos) : pos \in kept} :
        Cardinality({k \in 1 .. Len(discovered) : discovered[k] = t})
            = Cardinality({pos \in kept : TupleAt(pos) = t})

C33_ReturnedInIndexOrder ==
    phase = "returned" =>
        \A k \in 1 .. (Len(results) - 1) :
            results[k].request_index < results[k + 1].request_index

\* a returned list in which the records of a create phase are followed by
\* those of an update phase and of the cleanup
C33_Witness ==
    /\ phase = "returned"
    /\ HasUpdatePhase
    /\ Len(results) = 3 * total_requests
    /\ total_requests = MaxRequests
    /\ results[Len(results)].http_method = "DELETE"

\* positions of the returned records that carry request_index j
RecordsAt(j) == {k \in 1 .. Len(results) : results[k].request_index = j}

\* the record is one of the synthetic ones of a unit whose create failed
IsSkippedRecord(r) ==
    /\ r.duration_ms = 0
    /\ ~r.success
    /\ r.status_code = NoStatus
    /\ r.error_message = "Skipped - create failed"

\* unit i has one record at each of 3i, 3i+1 and 3i+2: POST, GET, DELETE, the
\* last two real after a 201 and synthetic otherwise
UnitComplete(i) ==
    /\ \A o \in 0 .. 2 : Cardinality(RecordsAt(3 * i + o)) = 1
    /\ LET post == results[CHOOSE k \in RecordsAt(3 * i) : TRUE]
           get == results[CHOOSE k \in RecordsAt(3 * i + 1) : TRUE]
           del == results[CHOOSE k \in RecordsAt(3 * i + 2) : TRUE]
       IN  /\ post.http_method = "POST"
           /\ get.http_method = "GET"
           /\ del.http_method = "DELETE"
           /\ IF post.status_code = 201
              THEN ~IsSkippedRecord(get) /\ ~IsSkippedRecord(del)
              ELSE IsSkippedRecord(get) /\ IsSkippedRecord(del)

\* C34: when full_lifecycle or group_lifecycle has returned, every unit that
\* issued its create request (it has a record at 3i) has exactly the records
\* 3i, 3i+1, 3i+2: real POST, GET and DELETE after a 201, otherwise the POST
\* and two synthetic records; and error_count is the number of unsuccessful
\* records.
C34_LifecycleUnitsComplete ==
    (phase = "returned" /\ Scen \in {"full_lifecycle", "group_lifecycle"}) =>
        /\ \A i \in Units : RecordsAt(3 * i) # {} => UnitComplete(i)
        /\ error_count = Len(results) - CountSuccess(results)

\* the permits a scenario's semaphore was built with (add_remove_members
\* builds none)
AllPermits == IF FirstPhase = "group" THEN 0 ELSE SemaphoreNew(concurrency)

\* C37: when run_scenario returns every spawned task has ended and every
\* permit is back; once it has returned no HTTP request is sent and no
\* result is produced for the run, cancelled or not.
C37_NothingRunsAfterReturn ==
    [][/\ phase' = "returned" =>
            /\ \A i \in Units : task'[i].pc = "idle"
            /\ permits' = AllPermits
       /\ phase = "returned" =>
            /\ phase' = "returned"
            /\ http_requests' = http_requests
            /\ delete_issued' = delete_issued
            /\ results' = results]_vars

\* a cancelled run has returned after requests were sent, and the facade
\* went on to its saves
C37_Witness ==
    /\ phase = "returned"
    /\ cancel_flag
    /\ http_requests >= 2
    /\ fpc \in {"save_completed", "remove_flag", "returned"}
    /\ permits = MaxConcurrency

\* the ids in created_ids
CapturedIds == {created_ids[k] : k \in 1 .. Len(created_ids)}

\* C39: the create phase is left only when each of its tasks has ended, and
\* so is the update phase; from then on created_ids is the set of resources
\* the create phase got a 201 for and stays as it is; an update task is
\* spawned only for a captured id, and a cleanup DELETE is sent only for a
\* captured id.
C39_PhasesDoNotOverlap ==
    [][/\ (phase \in {"create", "update"} /\ phase' # phase) =>
            /\ \A i \in Units : task[i].pc \in {"idle", "done"}
            /\ CapturedIds = created
       /\ phase \in {"update", "cleanup"} =>
            /\ created_ids' = created_ids
            /\ created' = created
       /\ (phase = "update" /\ di' # di /\ phase' = phase) => di < Len(created_ids)
       /\ (phase' = "cleanup" /\ delete_issued' # delete_issued) =>
            (delete_issued' \ delete_issued) \subseteq CapturedIds]_vars

\* create_update / update_groups went through create, update and cleanup
\* with every create answered 201
C39_Witness ==
    /\ phase = "returned"
    /\ HasUpdatePhase
    /\ ~cancel_flag
    /\ Len(created_ids) = MaxRequests
    /\ delete_issued = created
    /\ Len(results) = 3 * MaxRequests

\* ------------------------------------------------------- SpecEngineFair
\* run_scenario on its own, entered from start_load_test line 182 with the
\* run registered and its row saved; every total and every concurrency,
\* zero included, and no stop_load_test
InitEngineFair ==
    /\ scenario \in ScenarioNames
    /\ total_requests \in 0 .. MaxRequests
    /\ concurrency \in 0 .. MaxConcurrency
    /\ server_config_id = KnownServer
    /\ cancel_flags = {RunId}
    /\ cancel_flag = FALSE
    /\ test_runs = RunningRow
    /\ load_test_results = <<>>
    /\ fpc = "run_scenario"
    /\ ret = "none"
    /\ summary = NoSummary
    /\ status = "none"
    /\ run_writes = <<"running">>
    /\ IdleEngine
    /\ created = {}
    /\ delete_issued = {}
    /\ http_requests = 0
    /\ results_at_cancel = -1
    /\ stop_ret = NoStop
    /\ vresults = <<>>
    /\ vsummary = NoVSummary
    /\ vpc = "off"
    /\ created_user_id = None
    /\ probes = {}
    /\ IdleExt

NextEngineFair ==
    \/ RunScenario
    \/ DispatchLoop
    \/ DispatchAcquire
    \/ \E i \in Units : TaskStart(i)
    \/ \E i \in Units : TaskResponse(i)
    \/ \E i \in Units : LifecyclePostResponse(i)
    \/ \E i \in Units : LifecycleGetResponse(i)
    \/ \E i \in Units : LifecycleDeleteResponse(i)
    \/ CollectResults
    \/ CleanupLoop
    \/ CleanupResponse
    \/ ArmGroupResponse
    \/ ArmLoop
    \/ ArmResponse
    \/ ArmGroupDeleteResponse

\* the tokio runtime polls every task that can run, and every HTTP request
\* sent eventually comes back: a step that stays possible is taken
SpecEngineFair == InitEngineFair /\ [][NextEngineFair]_vars /\ WF_vars(NextEngineFair)

\* C38: for every total N >= 0 and every concurrency C >= 0, when every HTTP
\* request eventually returns, run_scenario eventually returns.
C38_RunScenarioReturns ==
    <>(phase = "returned")

\* the dispatcher of a scenario with work to do and a semaphore of zero
\* permits, parked in acquire_owned
C38_StuckInAcquire ==
    /\ concurrency = 0
    /\ total_requests >= 1
    /\ epc = "acquire"
    /\ permits = 0
    /\ InFlight = 0

\* ----------------------------------------------------------- SpecRampUp
\* the dispatch loop of a scenario's first phase with apply_ramp_up in it
\* (load_test.rs lines 118-122 and the same lines of the other scenarios).
\* Time is counted in ticks of 1/total ms, so that i * (R * 1000 / total) ms
\* is the whole number i * R * 1000 of ticks.
MaxRampTotal == 3
MaxRampUp == 2

\* every variable the specifications above use
baseVars == <<configVars, cancel_flags, cancel_flag, storeVars, facadeVars, engineVars,
              wireVars, results_at_cancel, stop_ret, vresults, vsummary, vpc,
              created_user_id, probes, commandVars, multiVars, progressVars,
              discoverVars>>

SomeRampUp(secs) == [some |-> TRUE, secs |-> secs]

TicksPerMs(total) == IF total = 0 THEN 1 ELSE total

\* apply_ramp_up, lines 961-962: delay_per_request = ramp_up * 1000.0 / total and
\* Duration::from_millis((i as f64 * delay_per_request) as u64); the cast
\* drops the fraction (for the totals and seconds drawn here the f64 product
\* has the same whole part as the exact quotient)
ramp_delay_ms(i, ramp_up, total) == (i * ramp_up * 1000) \div total

\* i * (R * 1000 / total) ms, in ticks
ExactDelayTicks(i, ramp_up) == i * ramp_up * 1000

\* the instants the clock is read at: the start, each unit's delay as the code
\* computes it, the exact i * (R * 1000 / total), and one tick after each
RampInstants ==
    LET R == ramp_up_seconds.secs
        T == TicksPerMs(total_requests)
        at == {0} \cup {ramp_delay_ms(i, R, total_requests) * T : i \in 0 .. total_requests - 1}
                  \cup {ExactDelayTicks(i, R) : i \in 0 .. total_requests - 1}
    IN  at \cup {t + 1 : t \in at}

InitRampUp ==
    /\ scenario = "create_users"
    /\ total_requests \in 0 .. MaxRampTotal
    /\ concurrency \in 1 .. MaxConcurrency
    /\ server_config_id = KnownServer
    /\ IdleFacade
    /\ IdleEngine
    /\ vresults = <<>>
    /\ vsummary = NoVSummary
    /\ vpc = "off"
    /\ created_user_id = None
    /\ probes = {}
    /\ IdleCommand
    /\ IdleMulti
    /\ IdleProgress
    /\ IdleDiscover
    /\ ramp_up_seconds \in {NoRampUp} \cup {SomeRampUp(r) : r \in 0 .. MaxRampUp}
    /\ now = 0
    /\ rpc = "call"
    /\ ri = 0
    /\ rpermits = 0
    /\ rtasks = {}
    /\ acquired_at = <<>>
    /\ wake = 0
    /\ IdleShared
    /\ IdleMapping
    /\ IdleDuplicate

rampRest == <<baseVars, ramp_up_seconds, sharedVars, mappingVars, duplicateVars>>

\* lines 110-114: Semaphore::new(config.concurrency), start_time = Instant::now()
RampStart ==
    /\ rpc = "call"
    /\ rpc' = "loop"
    /\ rpermits' = concurrency
    /\ now' = 0
    /\ UNCHANGED <<ri, rtasks, acquired_at, wake, rampRest>>

\* lines 118-120 and apply_ramp_up, lines 958-969: the loop test, then the
\* delay of unit i against start_time.elapsed(); sleep(delay - elapsed) when
\* the delay is still ahead
RampLoop ==
    /\ rpc = "loop"
    /\ LET delay == ramp_delay_ms(ri, ramp_up_seconds.secs, total_requests)
                        * TicksPerMs(total_requests)
           elapsed == now
       IN  IF ri >= total_requests
           THEN rpc' = "join" /\ wake' = wake
           ELSE IF /\ ramp_up_seconds.some
                   /\ ramp_up_seconds.secs > 0
                   /\ total_requests > 1
                   /\ delay > elapsed
                THEN rpc' = "sleep" /\ wake' = delay
                ELSE rpc' = "acquire" /\ wake' = wake
    /\ UNCHANGED <<now, ri, rpermits, rtasks, acquired_at, rampRest>>

\* tokio::time::sleep completes, no earlier than asked
RampWake ==
    /\ rpc = "sleep"
    /\ now >= wake
    /\ rpc' = "acquire"
    /\ UNCHANGED <<now, ri, rpermits, rtasks, acquired_at, wake, rampRest>>

\* line 122: semaphore.acquire_owned().await, then the spawn
RampAcquire ==
    /\ rpc = "acquire"
    /\ rpermits > 0
    /\ rpermits' = rpermits - 1
    /\ rtasks' = rtasks \cup {ri}
    /\ acquired_at' = Append(acquired_at, now)
    /\ ri' = ri + 1
    /\ rpc' = "loop"
    /\ UNCHANGED <<now, wake, rampRest>>

\* a spawned task gets its answer and ends: its permit is dropped
RampTaskDone(i) ==
    /\ i \in rtasks
    /\ rtasks' = rtasks \ {i}
    /\ rpermits' = rpermits + 1
    /\ UNCHANGED <<now, rpc, ri, acquired_at, wake, rampRest>>

\* collect_results has awaited every handle
RampJoin ==
    /\ rpc = "join"
    /\ rtasks = {}
    /\ rpc' = "returned"
    /\ UNCHANGED <<now, ri, rpermits, rtasks, acquired_at, wake, rampRest>>

\* time passes
RampTick ==
    /\ rpc \in {"loop", "sleep", "acquire", "join"}
    /\ \E t \in RampInstants :
        /\ t > now
        /\ now' = t
    /\ UNCHANGED <<rpc, ri, rpermits, rtasks, acquired_at, wake, rampRest>>

NextRampUp ==
    \/ RampStart
    \/ RampLoop
    \/ RampWake
    \/ RampAcquire
    \/ \E i \in 0 .. MaxRampTotal - 1 : RampTaskDone(i)
    \/ RampJoin
    \/ RampTick

SpecRampUp == InitRampUp /\ [][NextRampUp]_vars

RampUpOn == ramp_up_seconds.some /\ ramp_up_seconds.secs > 0 /\ total_requests > 1

\* C35: with ramp-up R > 0 and total > 1 the permit of unit i is acquired no
\* earlier than i * (R * 1000 / total) ms after the scenario's start; the
\* dispatcher holds no permit while it waits; with R = 0, R absent or
\* total <= 1 no delay is inserted.
C35_RampUpDelaysPermits ==
    /\ RampUpOn =>
         \A k \in 1 .. Len(acquired_at) :
             acquired_at[k] >= ExactDelayTicks(k - 1, ramp_up_seconds.secs)
    /\ rpc = "sleep" => rpermits + Cardinality(rtasks) = concurrency
    /\ ~RampUpOn => rpc # "sleep"

\* the bound the loop keeps for the totals drawn here: the delay cut to whole
\* milliseconds
C35_PermitAfterWholeMs ==
    /\ RampUpOn =>
         \A k \in 1 .. Len(acquired_at) :
             acquired_at[k] >= ramp_delay_ms(k - 1, ramp_up_seconds.secs, total_requests)
                                   * TicksPerMs(total_requests)
    /\ rpc = "sleep" => rpermits + Cardinality(rtasks) = concurrency
    /\ ~RampUpOn => rpc # "sleep"

\* unit 1 of three got its permit after 333 ms and before 333 1/3 ms
C35_PermitBeforeExactDelay ==
    /\ RampUpOn
    /\ \E k \in 1 .. Len(acquired_at) :
           acquired_at[k] < ExactDelayTicks(k - 1, ramp_up_seconds.secs)

\* ----------------------------------------------------------- SpecShared
\* run_multi_scenario with what each spawned scenario does to limit its own
\* requests: dispatch_scenario enters a scenario function, which builds
\* Semaphore::new(config.concurrency) from its sub_config (a clone of config
\* with total_requests replaced) and spawns one task per unit under a permit.
InitShared ==
    /\ scenario = "create_users"
    /\ total_requests \in 0 .. MaxTotal
    /\ concurrency \in 1 .. MaxConcurrency
    /\ server_config_id = KnownServer
    /\ IdleFacade
    /\ IdleEngine
    /\ vresults = <<>>
    /\ vsummary = NoVSummary
    /\ vpc = "off"
    /\ created_user_id = None
    /\ probes = {}
    /\ IdleCommand
    /\ \E n \in 2 .. MaxScenarios : scenarios = SubSeq(ScenarioOrder, 1, n)
    /\ handles = NoHandles
    /\ all_results = <<>>
    /\ joined = 0
    /\ mpc = "off"
    /\ IdleProgress
    /\ IdleDiscover
    /\ IdleRamp
    /\ subs = <<>>
    /\ xpc = "call"
    /\ IdleMapping
    /\ IdleDuplicate

sharedRest == <<baseVars, rampVars, mappingVars, duplicateVars>>

\* lines 70-85: sub_config = config.clone() with requests_per_scenario units,
\* one tokio::spawn per scenario
SharedSpawn ==
    /\ xpc = "call"
    /\ subs' = [k \in 1 .. Len(scenarios) |->
                  [pc |-> "spawned",
                   total |-> requests_per_scenario(total_requests, Len(scenarios)),
                   concurrency |-> concurrency,
                   i |-> 0, permits |-> 0, held |-> 0, flying |-> 0]]
    /\ xpc' = "join"
    /\ UNCHANGED sharedRest

\* the scenario function starts, line 110 (176, 272, 390, ...):
\* Semaphore::new(config.concurrency) on the scenario's own sub_config
SharedScenarioStart(k) ==
    /\ k \in 1 .. Len(subs)
    /\ subs[k].pc = "spawned"
    /\ subs' = [subs EXCEPT ![k].pc = "loop",
                            ![k].permits = SemaphoreNew(subs[k].concurrency)]
    /\ UNCHANGED <<xpc, sharedRest>>

\* lines 118-122: the loop test and semaphore.acquire_owned().await, then the
\* spawn of the unit's task, which owns the permit
SharedAcquire(k) ==
    /\ k \in 1 .. Len(subs)
    /\ subs[k].pc = "loop"
    /\ subs[k].i < subs[k].total
    /\ CanAcquire(subs[k].permits)
    /\ subs' = [subs EXCEPT ![k].permits = @ - 1,
                            ![k].held = @ + 1,
                            ![k].i = @ + 1]
    /\ UNCHANGED <<xpc, sharedRest>>

\* a unit's task sends its HTTP request
SharedSend(k) ==
    /\ k \in 1 .. Len(subs)
    /\ subs[k].held > 0
    /\ subs' = [subs EXCEPT ![k].held = @ - 1, ![k].flying = @ + 1]
    /\ UNCHANGED <<xpc, sharedRest>>

\* the request is answered, the task ends and drops its permit
SharedResponse(k) ==
    /\ k \in 1 .. Len(subs)
    /\ subs[k].flying > 0
    /\ subs' = [subs EXCEPT ![k].flying = @ - 1, ![k].permits = @ + 1]
    /\ UNCHANGED <<xpc, sharedRest>>

\* the loop is over and collect_results has awaited every task
SharedScenarioReturns(k) ==
    /\ k \in 1 .. Len(subs)
    /\ subs[k].pc = "loop"
    /\ subs[k].i >= subs[k].total
    /\ subs[k].held = 0
    /\ subs[k].flying = 0
    /\ subs' = [subs EXCEPT ![k].pc = "returned"]
    /\ UNCHANGED <<xpc, sharedRest>>

\* lines 87-98: every handle awaited
SharedJoin ==
    /\ xpc = "join"
    /\ \A k \in 1 .. Len(subs) : subs[k].pc = "returned"
    /\ xpc' = "returned"
    /\ UNCHANGED <<subs, sharedRest>>

NextShared ==
    \/ SharedSpawn
    \/ \E k \in 1 .. MaxScenarios : SharedScenarioStart(k)
    \/ \E k \in 1 .. MaxScenarios : SharedAcquire(k)
    \/ \E k \in 1 .. MaxScenarios : SharedSend(k)
    \/ \E k \in 1 .. MaxScenarios : SharedResponse(k)
    \/ \E k \in 1 .. MaxScenarios : SharedScenarioReturns(k)
    \/ SharedJoin

SpecShared == InitShared /\ [][NextShared]_vars

RECURSIVE SumFlying(_, _)
SumFlying(ss, n) == IF n = 0 THEN 0 ELSE ss[n].flying + SumFlying(ss, n - 1)

\* HTTP requests in flight across all the scenarios of the run
AllInFlight == SumFlying(subs, Len(subs))

\* C36: in a multi-scenario run with concurrency C the number of HTTP
\* requests in flight across all concurrently running scenarios never
\* exceeds C.
C36_SharedConcurrencyLimit ==
    AllInFlight <= concurrency

\* what the semaphores do bound: C requests per scenario
C36_LimitPerScenario ==
    /\ \A k \in 1 .. Len(subs) : subs[k].flying <= concurrency
    /\ AllInFlight <= Len(scenarios) * concurrency

\* every scenario of the run has C requests in flight at once
C36_EveryScenarioAtItsLimit ==
    /\ Len(subs) >= 2
    /\ \A k \in 1 .. Len(subs) : subs[k].flying = concurrency

\* ----------------------------------------------------- SpecFieldMapping
\* ValidationEngine::test_field_mapping with validate_field_rule, resolve_path
\* and split_path. A path is the sequence of its characters; a JSON value is
\* a record tagged with its kind.
MaxPathLen == 4

PathChars == {"a", "[", "0", "]", "."}

Paths == SeqsUpTo(PathChars, MaxPathLen)

SomeValue(v) == [some |-> TRUE, val |-> v]
JString(t) == [kind |-> "string", text |-> t]
JBool(t) == [kind |-> "bool", text |-> t]
JNumber(t) == [kind |-> "number", text |-> t]
JArray(items) == [kind |-> "array", items |-> items]
JObject(members) == [kind |-> "object", members |-> members]

\* the user documents the server hands back: attribute a absent, null, an
\* empty string, a string, a boolean, a number, an array and an object
UserDocuments ==
    {JObject(<<>>)} \cup
    {JObject(<<"a">> :> v) :
        v \in {JNull, JString(""), JString("x"), JBool("true"), JNumber("7"),
               JArray(<<JString("a@b.co")>>),
               JObject(<<"a">> :> JString("true"))}}

\* Option<String> of FieldMappingRule::regex_pattern
NoPattern == [some |-> FALSE, text |-> ""]
SomePattern(t) == [some |-> TRUE, text |-> t]

\* the pairs of format and regex_pattern drawn
RuleFormats ==
    {<<f, NoPattern>> : f \in {"none", "email", "uri", "phone", "boolean", "integer",
                               "datetime", "regex", "custom"}}
        \cup {<<"regex", SomePattern("^x$")>>, <<"regex", SomePattern("(")>>}

FieldMappingRules ==
    {[scim_attribute |-> p, required |-> r, format |-> f[1], regex_pattern |-> f[2]] :
        p \in Paths, r \in BOOLEAN, f \in RuleFormats}

PlainRule ==
    [scim_attribute |-> <<"a">>, required |-> FALSE, format |-> "none",
     regex_pattern |-> NoPattern]

\* path.split('.'): the segments between the dots, empty ones included
RECURSIVE str_split(_, _, _)
str_split(path, k, segment) ==
    IF k > Len(path)
    THEN <<segment>>
    ELSE IF path[k] = "."
         THEN <<segment>> \o str_split(path, k + 1, <<>>)
         ELSE str_split(path, k + 1, Append(segment, path[k]))

\* segment.find('['), counted from 1; 0 for None
find_bracket(segment) ==
    IF \E k \in 1 .. Len(segment) : segment[k] = "["
    THEN CHOOSE k \in 1 .. Len(segment) :
             /\ segment[k] = "["
             /\ \A j \in 1 .. k - 1 : segment[j] # "["
    ELSE 0

\* idx_str.parse::<usize>(): digits only, at least one ("0" is the one digit
\* of PathChars)
parse_usize(t) ==
    [ok |-> t # <<>> /\ \A k \in 1 .. Len(t) : t[k] = "0", val |-> 0]

\* a slice start..end of a str panics when start > end
slice_valid(start, end) == start <= end

\* split_path, lines 2183-2194, for one segment: the text between the first
\* '[' and the last character of the segment is the index
path_part(segment) ==
    LET bracket_pos == find_bracket(segment) IN
    IF bracket_pos = 0
    THEN [kind |-> "key", key |-> segment, idx |-> 0]
    ELSE IF ~slice_valid(bracket_pos, Len(segment) - 1)
         THEN [kind |-> "panic", key |-> segment, idx |-> 0]
         ELSE LET idx_res == parse_usize(SubSeq(segment, bracket_pos + 1, Len(segment) - 1)) IN
              IF idx_res.ok
              THEN [kind |-> "index", key |-> SubSeq(segment, 1, bracket_pos - 1),
                    idx |-> idx_res.val]
              ELSE [kind |-> "key", key |-> segment, idx |-> 0]

split_path(path) ==
    LET segments == str_split(path, 1, <<>>) IN
    [k \in 1 .. Len(segments) |-> path_part(segments[k])]

\* the slice of line 2185 is out of range for one of the segments
SplitPanics(path) ==
    \E k \in 1 .. Len(split_path(path)) : split_path(path)[k].kind = "panic"

\* Value::get(&key): a member of an object, None for anything else
json_get(v, key) ==
    IF v.kind = "object" /\ key \in DOMAIN v.members
    THEN SomeValue(v.members[key])
    ELSE NoValue

\* resolve_path, lines 2167-2177
RECURSIVE resolve_parts(_, _, _)
resolve_parts(current, parts, k) ==
    IF k > Len(parts)
    THEN SomeValue(current)
    ELSE LET member == json_get(current, parts[k].key) IN
         IF ~member.some
         THEN NoValue
         ELSE IF parts[k].kind = "key"
              THEN resolve_parts(member.val, parts, k + 1)
              ELSE IF member.val.kind = "array" /\ parts[k].idx + 1 <= Len(member.val.items)
                   THEN resolve_parts(member.val.items[parts[k].idx + 1], parts, k + 1)
                   ELSE NoValue

resolve_path(json, path) == resolve_parts(json, split_path(path), 1)

\* lines 2088-2093
val_str(val) ==
    IF val.kind \in {"string", "bool", "number"} THEN val.text ELSE "<json>"

\* the texts among those drawn that the regular expressions of a format match
EmailTexts == {"a@b.co"}
UriTexts == {}
PhoneTexts == {}
DateTimeTexts == {}
IntegerTexts == {"7"}

\* regex_lite::Regex::new(pattern) and is_match
regex_compiles(pattern) == pattern # "("
regex_is_match(pattern, t) == pattern = "^x$" /\ t = "x"

RuleResult(passed, failure) == [panic |-> FALSE, passed |-> passed, failure |-> failure]

\* lines 2095-2160: the match on rule.format
format_result(val, rule) ==
    CASE rule.format = "none" -> RuleResult(TRUE, "")
      [] rule.format = "email" ->
            IF val_str(val) \in EmailTexts
            THEN RuleResult(TRUE, "") ELSE RuleResult(FALSE, "is not a valid email address")
      [] rule.format = "uri" ->
            IF val_str(val) \in UriTexts
            THEN RuleResult(TRUE, "") ELSE RuleResult(FALSE, "is not a valid URI")
      [] rule.format = "phone" ->
            IF val_str(val) \in PhoneTexts
            THEN RuleResult(TRUE, "") ELSE RuleResult(FALSE, "is not a valid phone number")
      [] rule.format = "boolean" ->
            IF val.kind = "bool" \/ (val.kind = "string" /\ val.text \in {"true", "false"})
            THEN RuleResult(TRUE, "") ELSE RuleResult(FALSE, "is not a boolean")
      [] rule.format = "integer" ->
            IF val.kind = "number" \/ (val.kind = "string" /\ val.text \in IntegerTexts)
            THEN RuleResult(TRUE, "") ELSE RuleResult(FALSE, "is not a valid integer")
      [] rule.format = "datetime" ->
            IF val_str(val) \in DateTimeTexts
            THEN RuleResult(TRUE, "")
            ELSE RuleResult(FALSE, "is not a valid ISO 8601 date-time")
      [] rule.format = "regex" ->
            IF rule.regex_pattern.some
            THEN IF regex_compiles(rule.regex_pattern.text)
                 THEN IF regex_is_match(rule.regex_pattern.text, val_str(val))
                      THEN RuleResult(TRUE, "")
                      ELSE RuleResult(FALSE, "does not match pattern")
                 ELSE RuleResult(FALSE, "Invalid regex pattern")
            ELSE RuleResult(FALSE, "Regex format selected but no pattern provided")
      [] OTHER -> RuleResult(TRUE, "")

\* validate_field_rule, lines 2066-2163
validate_field_rule(user, rule) ==
    IF SplitPanics(rule.scim_attribute)
    THEN [panic |-> TRUE, passed |-> FALSE, failure |-> ""]
    ELSE LET value == resolve_path(user, rule.scim_attribute) IN
         IF rule.required /\ ~value.some
         THEN RuleResult(FALSE, "Required field is missing")
         ELSE IF rule.required /\ value.val.kind = "null"
         THEN RuleResult(FALSE, "Required field is null")
         ELSE IF rule.required /\ value.val.kind = "string" /\ value.val.text = ""
         THEN RuleResult(FALSE, "Required field is empty")
         ELSE IF ~(value.some /\ value.val.kind # "null")
         THEN RuleResult(TRUE, "")
         ELSE format_result(value.val, rule)

InitFieldMapping ==
    /\ scenario = "create_users"
    /\ total_requests = 0
    /\ concurrency = 0
    /\ server_config_id = KnownServer
    /\ IdleFacade
    /\ IdleEngine
    /\ vresults = <<>>
    /\ vsummary = NoVSummary
    /\ vpc = "off"
    /\ created_user_id = None
    /\ probes = {}
    /\ IdleCommand
    /\ IdleMulti
    /\ IdleProgress
    /\ IdleDiscover
    /\ IdleRamp
    /\ IdleShared
    /\ field_rules \in {<<>>} \cup {<<r, PlainRule>> : r \in FieldMappingRules}
    /\ user_json = NoValue
    /\ fm_created = FALSE
    /\ fm_results = <<>>
    /\ fmi = 1
    /\ fm_deleted = FALSE
    /\ fmpc = "call"
    /\ IdleDuplicate

mappingRest == <<baseVars, rampVars, sharedVars, field_rules, duplicateVars>>

\* lines 1984-1993: no rules, one placeholder result
FieldMappingNoRules ==
    /\ fmpc = "call"
    /\ field_rules = <<>>
    /\ fm_results' = <<[passed |-> TRUE, failure |-> "Skipped"]>>
    /\ fmpc' = "returned"
    /\ UNCHANGED <<user_json, fm_created, fmi, fm_deleted, mappingRest>>

\* lines 1995-2033: POST /Users of a temporary user; on anything but a 201
\* with a JSON body, GET /Users?count=1 and GET /Users for an existing one
FieldMappingSample ==
    /\ fmpc = "call"
    /\ field_rules # <<>>
    /\ \E sample \in {NoValue} \cup {SomeValue(u) : u \in UserDocuments}, has_id \in BOOLEAN :
        /\ has_id => sample.some
        /\ user_json' = sample
        /\ fm_created' = has_id
    /\ fmpc' = "rules"
    /\ UNCHANGED <<fm_results, fmi, fm_deleted, mappingRest>>

\* lines 2035-2054: one turn of the loop over rules; a panic of split_path
\* unwinds test_field_mapping before the result is pushed
FieldMappingRule ==
    /\ fmpc = "rules"
    /\ fmi <= Len(field_rules)
    /\ LET res == IF user_json.some
                  THEN validate_field_rule(user_json.val, field_rules[fmi])
                  ELSE RuleResult(FALSE, "Could not create or fetch a sample User")
       IN  IF res.panic
           THEN /\ fmpc' = "panicked"
                /\ UNCHANGED <<fm_results, fmi>>
           ELSE /\ fm_results' = Append(fm_results, [passed |-> res.passed,
                                                     failure |-> res.failure])
                /\ fmi' = fmi + 1
                /\ fmpc' = fmpc
    /\ UNCHANGED <<user_json, fm_created, fm_deleted, mappingRest>>

\* lines 2056-2061: DELETE of the temporary user if one was created, return
FieldMappingCleanup ==
    /\ fmpc = "rules"
    /\ fmi > Len(field_rules)
    /\ fm_deleted' = fm_created
    /\ fmpc' = "returned"
    /\ UNCHANGED <<user_json, fm_created, fm_results, fmi, mappingRest>>

NextFieldMapping ==
    \/ FieldMappingNoRules
    \/ FieldMappingSample
    \/ FieldMappingRule
    \/ FieldMappingCleanup

SpecFieldMapping == InitFieldMapping /\ [][NextFieldMapping]_vars

\* C31: field-mapping evaluation never panics: for every attribute path
\* (also one with an opening bracket and no closing one, a non-numeric index
\* or an empty segment) and every user document validate_field_rule returns a
\* pass/fail result, and the engine records it and continues.
C31_FieldMappingNeverPanics ==
    /\ fmpc # "panicked"
    /\ (fmpc = "returned" /\ field_rules # <<>>) => Len(fm_results) = Len(field_rules)

\* a path whose segment ends in its first '[' has unwound the category
C31_PanickedOnBracket ==
    /\ fmpc = "panicked"
    /\ fm_results = <<>>
    /\ field_rules[1].scim_attribute = <<"a", "[">>

\* the paths that do not end a segment with its first '[' are evaluated
C31_OtherPathsEvaluated ==
    (fmpc = "returned" /\ field_rules # <<>> /\ ~SplitPanics(field_rules[1].scim_attribute))
        => Len(fm_results) = Len(field_rules)

\* the value rule k of the run was evaluated on
ValueOfRule(k) == resolve_path(user_json.val, field_rules[k].scim_attribute)

ValueMissing(v) ==
    \/ ~v.some
    \/ v.val.kind = "null"
    \/ (v.val.kind = "string" /\ v.val.text = "")

\* C32: a required rule fails when the resolved value is missing, null or the
\* empty string, whatever its format; a rule of format regex with a null
\* pattern fails, whether or not the attribute is present in the document.
C32_RequiredAndNullPatternFail ==
    \A k \in 1 .. Len(fm_results) :
        (user_json.some /\ field_rules # <<>>) =>
            /\ (field_rules[k].required /\ ValueMissing(ValueOfRule(k)))
                   => ~fm_results[k].passed
            /\ (field_rules[k].format = "regex" /\ ~field_rules[k].regex_pattern.some)
                   => ~fm_results[k].passed

\* the part the code keeps: required rules, and null patterns on a value
\* that is present and not null
C32_NullPatternFailsWhenPresent ==
    \A k \in 1 .. Len(fm_results) :
        (user_json.some /\ field_rules # <<>>) =>
            /\ (field_rules[k].required /\ ValueMissing(ValueOfRule(k)))
                   => ~fm_results[k].passed
            /\ (/\ field_rules[k].format = "regex"
                /\ ~field_rules[k].regex_pattern.some
                /\ ValueOfRule(k).some
                /\ ValueOfRule(k).val.kind # "null")
                   => ~fm_results[k].passed

\* a rule that is not required, of format regex with no pattern, on a
\* document without the attribute, was recorded as passed
C32_NullPatternPassed ==
    /\ field_rules # <<>>
    /\ Len(fm_results) >= 1
    /\ user_json.some
    /\ field_rules[1].format = "regex"
    /\ ~field_rules[1].regex_pattern.some
    /\ ~ValueOfRule(1).some
    /\ fm_results[1].passed

\* ------------------------------------------------------- SpecDuplicate
\* ValidationEngine::test_duplicate_detection: two POSTs of the same user,
\* the DELETE of the first, then the same for a group. A POST the server
\* answers 201 has created a resource, whatever the body of the answer says.
SomeId(i) == [some |-> TRUE, id |-> i]

\* how the server answers a POST: the status and the body (JSON with a
\* string "id", JSON without one, or not JSON), or no answer at all
PostAnswers ==
    {[status |-> 201, body |-> b] : b \in {"id", "no id", "not json"}}
        \cup {[status |-> 409, body |-> "no id"], [status |-> 500, body |-> "not json"],
              [status |-> TransportErr, body |-> "not json"]}

\* the resource a 201 stands for
ServerCreates(created_set, answer, id) ==
    IF answer.status = 201 THEN created_set \cup {id} ELSE created_set

InitDuplicate ==
    /\ scenario = "create_users"
    /\ total_requests = 0
    /\ concurrency = 0
    /\ server_config_id = KnownServer
    /\ IdleFacade
    /\ IdleEngine
    /\ vresults = <<>>
    /\ vsummary = NoVSummary
    /\ vpc = "off"
    /\ created_user_id = None
    /\ probes = {}
    /\ IdleCommand
    /\ IdleMulti
    /\ IdleProgress
    /\ IdleDiscover
    /\ IdleRamp
    /\ IdleShared
    /\ IdleMapping
    /\ first_user_id = NoId
    /\ first_group_id = NoId
    /\ dup_created = {}
    /\ dup_deleted = {}
    /\ dup_results = <<>>
    /\ duppc = "user_first"

duplicateRest == <<baseVars, rampVars, sharedVars, mappingVars>>

\* lines 1419-1432 (users) and 1481-1494 (groups): on a 201 the body is
\* parsed; the id is remembered if it is there, a JSON body without one is a
\* failure, and a body that does not parse is neither
FirstCreate(answer, id) ==
    [passed |-> answer.status = 201 /\ answer.body # "no id",
     first_id |-> IF answer.status = 201 /\ answer.body = "id" THEN SomeId(id) ELSE NoId]

\* Test 1, lines 1415-1440
DupCreateUser ==
    /\ duppc = "user_first"
    /\ \E answer \in PostAnswers :
        /\ first_user_id' = FirstCreate(answer, "user-1").first_id
        /\ dup_created' = ServerCreates(dup_created, answer, "user-1")
        /\ dup_results' = Append(dup_results, [test |-> 1, status |-> answer.status,
                                               passed |-> FirstCreate(answer, "user-1").passed])
    /\ duppc' = "user_second"
    /\ UNCHANGED <<first_group_id, dup_deleted, duplicateRest>>

\* Test 2, lines 1442-1461: the same body again, 409 expected
DupCreateUserAgain ==
    /\ duppc = "user_second"
    /\ \E answer \in PostAnswers :
        /\ dup_created' = ServerCreates(dup_created, answer, "user-2")
        /\ dup_results' = Append(dup_results, [test |-> 2, status |-> answer.status,
                                               passed |-> answer.status = 409])
    /\ duppc' = "user_cleanup"
    /\ UNCHANGED <<first_user_id, first_group_id, dup_deleted, duplicateRest>>

\* lines 1463-1466: DELETE /Users/{first_user_id} if there is one
DupCleanupUser ==
    /\ duppc = "user_cleanup"
    /\ dup_deleted' = IF first_user_id.some
                      THEN dup_deleted \cup {first_user_id.id}
                      ELSE dup_deleted
    /\ duppc' = "group_first"
    /\ UNCHANGED <<first_user_id, first_group_id, dup_created, dup_results, duplicateRest>>

\* Test 3, lines 1476-1502
DupCreateGroup ==
    /\ duppc = "group_first"
    /\ \E answer \in PostAnswers :
        /\ first_group_id' = FirstCreate(answer, "group-1").first_id
        /\ dup_created' = ServerCreates(dup_created, answer, "group-1")
        /\ dup_results' = Append(dup_results, [test |-> 3, status |-> answer.status,
                                               passed |-> FirstCreate(answer, "group-1").passed])
    /\ duppc' = "group_second"
    /\ UNCHANGED <<first_user_id, dup_deleted, duplicateRest>>

\* Test 4, lines 1504-1523
DupCreateGroupAgain ==
    /\ duppc = "group_second"
    /\ \E answer \in PostAnswers :
        /\ dup_created' = ServerCreates(dup_created, answer, "group-2")
        /\ dup_results' = Append(dup_results, [test |-> 4, status |-> answer.status,
                                               passed |-> answer.status = 409])
    /\ duppc' = "group_cleanup"
    /\ UNCHANGED <<first_user_id, first_group_id, dup_deleted, duplicateRest>>

\* lines 1525-1530: DELETE /Groups/{first_group_id} if there is one, return
DupCleanupGroup ==
    /\ duppc = "group_cleanup"
    /\ dup_deleted' = IF first_group_id.some
                      THEN dup_deleted \cup {first_group_id.id}
                      ELSE dup_deleted
    /\ duppc' = "returned"
    /\ UNCHANGED <<first_user_id, first_group_id, dup_created, dup_results, duplicateRest>>

NextDuplicate ==
    \/ DupCreateUser
    \/ DupCreateUserAgain
    \/ DupCleanupUser
    \/ DupCreateGroup
    \/ DupCreateGroupAgain
    \/ DupCleanupGroup

SpecDuplicate == InitDuplicate /\ [][NextDuplicate]_vars

\* C40: in the duplicate_detection category every user or group whose POST
\* was answered 201 (the first creation or the duplicate attempt) has a
\* DELETE issued for it before the category returns.
C40_DuplicateDetectionCleansUp ==
    duppc = "returned" => dup_created \subseteq dup_deleted

\* what the cleanup does cover: a first creation whose answer carried an id
C40_FirstWithIdDeleted ==
    duppc = "returned" =>
        /\ first_user_id.some => first_user_id.id \in dup_deleted
        /\ first_group_id.some => first_group_id.id \in dup_deleted
        /\ dup_deleted \subseteq {"user-1", "group-1"}

\* the server accepted the duplicate user, and the category returned with
\* the second user still there
C40_DuplicateLeftBehind ==
    /\ duppc = "returned"
    /\ "user-2" \in dup_created
    /\ "user-2" \notin dup_deleted

====
